---- MODULE Spec2Model ----
(***************************************************************************)
(* The message-processing pipeline of the WhatsApp AI agent:               *)
(*   ChatHistoryService   (src/src/services/chat-history.service.ts)       *)
(*   AIService            (src/src/services/ai.service.ts)                 *)
(*   WhatsAppService and ChatbotService                                    *)
(*                        (src/src/services/whatsapp.service.ts)           *)
(*   WebSocketService     (src/unnamed/part_000)                           *)
(*                                                                         *)
(* The program runs on one JavaScript event loop: the code between two     *)
(* awaits is one atomic step.  handleIncomingMessage suspends at three     *)
(* awaits (the generator call, the reply delay, the transport send); each  *)
(* invocation of the handler is one entry of pc, and the transport, the    *)
(* generator backend and the timer are the environment.                    *)
(*                                                                         *)
(* Time: the clock is read in milliseconds.  In the pipeline it advances   *)
(* by the reply delay when the delay timer fires; between direct calls to  *)
(* the history store it advances by whole days.                            *)
(*                                                                         *)
(* Exceptions: ChatHistoryService.addMessage, WhatsAppService.sendMessage  *)
(* and WebSocketService.broadcastMessage catch what their own calls throw, *)
(* and the payloads published are plain records, so the only rejection     *)
(* that reaches the pipeline is the generator's; processMessage catches    *)
(* it.  The catch block of handleIncomingMessage (lines 412-419) has no    *)
(* step that can reach it and has no action here.                          *)
(***************************************************************************)
EXTENDS Integers, Sequences, FiniteSets, TLC

\* ------------------------------------------------------------------ bounds
\* The number of inbound messages the transport delivers in a run.
MaxInbound == 3
\* The configured history length (ChatHistoryService.maxHistoryLength).
MaxHistory == 3
\* The number of observer sockets that connect to the WebSocket server.
MaxClients == 2
\* The longest history buildConversationContext is called with.
MaxContextLen == 12

\* --------------------------------------------------------------- constants
\* getConversationContext(chatId, maxMessages = 10)
DefaultMaxMessages == 10
\* buildConversationContext: chatHistory.slice(-10)
ContextWindow == 10
\* ChatbotService's responseDelay (constructor default), in milliseconds
ResponseDelay == 1000
\* cleanupOldHistories: daysOld * 24 * 60 * 60 * 1000
MsPerDay == 24 * 60 * 60 * 1000

\* The JavaScript value undefined, as the value of an optional string field.
Undefined == "<undefined>"

MsgIds == 1..MaxInbound
Sockets == 1..MaxClients

\* Transport identities (JIDs).  A one-to-one chat has remoteJid = the
\* counterparty; a group chat has remoteJid = the group and a participant.
UserJid == "111@s.whatsapp.net"
GroupJid == "g1@g.us"
ParticipantJid == "222@s.whatsapp.net"
RemoteJids == {UserJid, GroupJid}

\* The text body of each inbound message (extractMessageContent's result):
\* every message of a run carries a text of its own.
Texts == << "hello", "what time is it", "thanks", "bye" >>
ContentOf(id) == Texts[((id - 1) % Len(Texts)) + 1]

Fallback == "I apologize, but I cannot generate a response at the moment."

\* What the generator backend may answer: a completion with text, a
\* completion with no usable text, or a failure with a diagnostic.
BackendOutcomes ==
  { [ok |-> TRUE, content |-> "sure", finish |-> "stop", diag |-> ""],
    [ok |-> TRUE, content |-> "", finish |-> "length", diag |-> ""],
    [ok |-> FALSE, content |-> "", finish |-> "", diag |-> "rate limit"] }

Providers == {"openai", "gemini"}

VARIABLES
  now,              \* Date.now(), in milliseconds
  chatHistories,    \* ChatHistoryService.chatHistories: chatId -> ChatHistory
  isProcessing,     \* ChatbotService.isProcessing, the busy flag
  sock,             \* WhatsAppService.sock is non-null
  connectionStatus, \* WhatsAppService.connectionStatus
  provider,         \* AIService.config.provider
  nextId,           \* the next inbound message the transport will deliver
  pc,               \* position of each invocation of handleIncomingMessage
  msg,              \* the message argument of each invocation
  result,           \* the local `result` of each invocation
  warnings,         \* logger.warn lines written by the skip branch
  appended,         \* every message passed to addMessage, per chat, in
                    \* call order (history variable)
  calls,            \* how often the generator and sendMessage were called
  trace,            \* the observable steps of the message pipeline since
                    \* it was last idle, in order (history variable)
  statusTrace,      \* the broadcasts of the latest connection-status
                    \* change, in order (history variable)
  droppedDuring,    \* where the busy invocation stood when the latest
                    \* message was dropped (history variable)
  ret,              \* the latest direct call of a public operation and
                    \* what it returned
  wss,              \* WebSocketService.wss is non-null
  clients,          \* WebSocketService.clients, in insertion order
  delivered,        \* the latest text sent to observers, and the sockets
                    \* it was sent to
  publishedEvent,   \* the latest AppEvent handed to broadcastEvent
  thrown,           \* an exception has reached a caller of WebSocketService
  chatHistoryArg,   \* the argument of buildConversationContext and of
                    \* extractContext
  contextResult,    \* the result of buildConversationContext
  topics,           \* the result of extractContext
  aiResult,         \* the latest completion of the backend and what
                    \* generateResponse made of it
  upserted,         \* the messages of every messages.upsert event, in
                    \* arrival order (history variable)
  eventHandlers,    \* WebSocketService.eventHandlers: type -> handlers
  invoked           \* the handlers the latest emitEvent invoked, in order

vars == << now, chatHistories, isProcessing, sock, connectionStatus, provider,
           nextId, pc, msg, result, warnings, appended, calls, trace,
           statusTrace, droppedDuring, ret, wss, clients, delivered,
           publishedEvent, thrown,
           chatHistoryArg, contextResult, topics, aiResult,
           upserted, eventHandlers, invoked >>

\* The state of the collaborators the message pipeline does not touch.
storeVars == << ret >>
observerVars == << wss, clients, delivered, publishedEvent, thrown >>
contextVars == << chatHistoryArg, contextResult, topics, aiResult >>
handlerVars == << upserted, eventHandlers, invoked >>
pipelineVars == << isProcessing, sock, connectionStatus, provider, nextId, pc,
                   msg, result, warnings, appended, calls, trace, statusTrace,
                   droppedDuring >>

NoCall == [op |-> "none"]
NoCompletion == [op |-> "none"]
NoEvent == [type |-> "none"]
NoEmit == [type |-> "none", calls |-> << >>]
NothingSent == [text |-> [type |-> "none"], to |-> {}]

NoMsg == [id |-> 0]
NoResult == [success |-> FALSE, response |-> "", error |-> <<>>, set |-> FALSE]

\* ------------------------------------------------------------- sequences
\* Array.prototype.slice(-n) for n >= 0: the last n elements; slice(-0) is
\* slice(0), the whole array.
SliceLast(s, n) ==
  IF n = 0 \/ n >= Len(s) THEN s
  ELSE SubSeq(s, Len(s) - n + 1, Len(s))

\* ------------------------------------------------- ChatHistoryService
\* getChatHistory: a copy of the stored messages, [] for an unknown chat.
GetChatHistory(h, chatId) ==
  IF chatId \in DOMAIN h THEN h[chatId].messages ELSE <<>>

\* getConversationContext(chatId, maxMessages): messages.slice(-maxMessages)
GetConversationContext(h, chatId, maxMessages) ==
  SliceLast(GetChatHistory(h, chatId), maxMessages)

\* Mutant: the limit keeps the oldest messages, slice(0, maxHistoryLength).
LimitHistoryKeepsOldest(messages) ==
  IF Len(messages) > MaxHistory THEN SubSeq(messages, 1, MaxHistory)
  ELSE messages

\* The length limit of addMessage in a store constructed with
\* maxHistoryLength: slice(-maxHistoryLength) on overflow.
LimitHistoryTo(maxHistoryLength, messages) ==
  IF Len(messages) > maxHistoryLength
  THEN SliceLast(messages, maxHistoryLength)
  ELSE messages

\* The length limit of addMessage in the store of the pipeline.
LimitHistory(messages) == LimitHistoryTo(MaxHistory, messages)

\* Mutant: lastUpdated is set when the conversation is created and never
\* again.
AddMessageKeepsLastUpdated(h, chatId, message, t) ==
  LET pushed == Append(GetChatHistory(h, chatId), message)
      entry == [chatId |-> chatId,
                messages |-> LimitHistory(pushed),
                lastUpdated |-> IF chatId \in DOMAIN h
                                THEN h[chatId].lastUpdated ELSE t]
  IN  [c \in DOMAIN h \cup {chatId} |-> IF c = chatId THEN entry ELSE h[c]]

\* addMessage(chatId, message) at time t: the store afterwards.
AddMessage(h, chatId, message, t) ==
  LET pushed == Append(GetChatHistory(h, chatId), message)
      entry == [chatId |-> chatId,
                messages |-> LimitHistory(pushed),
                lastUpdated |-> t]
  IN  [c \in DOMAIN h \cup {chatId} |-> IF c = chatId THEN entry ELSE h[c]]

\* ---------------------------------------------------- WebSocketService
\* Mutant: the event itself is sent, without the 'message' wrapper.
BroadcastEventUnwrapped(type, data, t) ==
  [type |-> type, data |-> data, timestamp |-> t]

\* broadcastEvent wraps the AppEvent into a WebSocketMessage of type
\* 'message' and hands it to broadcastMessage.
BroadcastEvent(type, data, t) ==
  [type |-> "message",
   data |-> [type |-> type, data |-> data, timestamp |-> t],
   timestamp |-> t]

\* One observable step of the pipeline, made by handler invocation `by`
\* (0: not made by a message handler).
Step(name, by, arg) == [step |-> name, by |-> by, arg |-> arg]

Broadcast(type, data, by, t) ==
  Step("broadcast", by, BroadcastEvent(type, data, t))

\* ------------------------------------------------------------ AIService
\* Mutant: a truncated completion is rated like a complete one.
CalculateConfidenceTruncatedHigh(finish) ==
  CASE finish = "stop" -> 90
    [] finish = "length" -> 90
    [] finish = "content_filter" -> 50
    [] OTHER -> 60

\* calculateConfidence, in hundredths.
CalculateConfidence(finish) ==
  CASE finish = "stop" -> 90
    [] finish = "length" -> 70
    [] finish = "content_filter" -> 50
    [] OTHER -> 60

\* A message body of white space only.
BlankText == "   "

\* extractContext: chatHistory.slice(-5) and topics.slice(0, 5)
TopicWindow == 5
MaxTopics == 5
\* word.length > 3
MinWordLength == 3

\* The message bodies extractContext is called on.
TopicTexts ==
  {"About The Weather", "book  flight today please", "what time is it", "bye"}

\* String.prototype.toLowerCase on the bodies that occur.
ToLowerCase(content) ==
  CASE content = "About The Weather" -> "about the weather"
    [] content = Fallback ->
         "i apologize, but i cannot generate a response at the moment."
    [] OTHER -> content

\* String.prototype.split(' ') on the lowered bodies that occur: two
\* spaces in a row give an empty word.
Split(content) ==
  CASE content = "about the weather" -> << "about", "the", "weather" >>
    [] content = "book  flight today please" ->
         << "book", "", "flight", "today", "please" >>
    [] content = "what time is it" -> << "what", "time", "is", "it" >>
    [] content = "i apologize, but i cannot generate a response at the moment."
         -> << "i", "apologize,", "but", "i", "cannot", "generate", "a",
               "response", "at", "the", "moment." >>
    [] content = BlankText -> << "", "", "", "" >>
    [] OTHER -> << content >>

\* isCommonWord's list.
CommonWords ==
  {"the", "and", "or", "but", "in", "on", "at", "to", "for", "of", "with",
   "by", "is", "are", "was", "were", "be", "been", "have", "has", "had",
   "do", "does", "did", "will", "would", "could", "should", "may", "might",
   "can", "this", "that", "these", "those", "i", "you", "he", "she", "it",
   "we", "they", "me", "him", "her", "us", "them", "my", "your", "his",
   "its", "our", "their", "mine", "yours", "hers", "ours",
   "theirs", "a", "an", "if", "then", "else",
   "when", "from", "up", "about", "into", "through", "during",
   "before", "after", "above", "below", "between", "among", "under",
   "over", "inside", "outside", "within", "without", "against", "toward",
   "towards", "upon", "across", "behind", "beneath", "beside", "beyond",
   "near", "off", "out", "past", "since",
   "throughout", "underneath", "until"}

\* Mutant: no word counts as common.
IsCommonWordNever(word) == FALSE

\* isCommonWord(word): commonWords.includes(word)
IsCommonWord(word) == word \in CommonWords

\* The test of extractContext's forEach.
IsTopic(word) == Len(word) > MinWordLength /\ ~IsCommonWord(word)

\* The loop of extractContext over recentMessages from position k on: the
\* words pushed, in order.
RECURSIVE TopicsFrom(_, _)
TopicsFrom(recentMessages, k) ==
  IF k > Len(recentMessages) THEN << >>
  ELSE SelectSeq(Split(ToLowerCase(recentMessages[k].content)), IsTopic)
         \o TopicsFrom(recentMessages, k + 1)

\* extractContext(chatHistory)
ExtractContext(chatHistory) ==
  LET recentMessages == SliceLast(chatHistory, TopicWindow)
      pushed == TopicsFrom(recentMessages, 1)
  IN  SubSeq(pushed, 1, IF Len(pushed) < MaxTopics THEN Len(pushed)
                        ELSE MaxTopics)


ErrorPrefix(p) ==
  IF p = "openai" THEN "Failed to generate OpenAI response: "
  ELSE "Failed to generate Gemini response: "

\* Mutant: a completion without text gives an empty reply.
AIResponseNoFallback(o, p, t, chatHistory) ==
  [message |-> o.content,
   confidence |-> IF p = "openai" THEN CalculateConfidence(o.finish) ELSE 90,
   context |-> ExtractContext(chatHistory),
   timestamp |-> t]

\* generateResponse(message, chatHistory) when the backend answers o
\* (o.ok): the AIResponse.
AIResponseOf(o, p, t, chatHistory) ==
  [message |-> IF o.content = "" THEN Fallback ELSE o.content,
   confidence |-> IF p = "openai" THEN CalculateConfidence(o.finish) ELSE 90,
   context |-> ExtractContext(chatHistory),
   timestamp |-> t]

\* generateResponse when the backend fails: the message of the Error thrown.
AIErrorOf(o, p) == << ErrorPrefix(p), o.diag >>

\* ------------------------------------------------------ WhatsAppService
\* msg.pushName: group participants carry one here, the one-to-one
\* counterparty does not.
PushName(remoteJid) == IF remoteJid = GroupJid THEN "Ann" ELSE Undefined

\* parseMessage: from is the participant in a group and the remote JID
\* otherwise; to is the remote JID.
ParseMessage(id, remoteJid, content, t) ==
  LET isGroup == remoteJid = GroupJid
  IN  [id |-> [origin |-> "wa", n |-> id],
       from |-> IF isGroup THEN ParticipantJid ELSE remoteJid,
       to |-> remoteJid,
       timestamp |-> t,
       type |-> "text",
       content |-> content,
       isGroup |-> isGroup,
       groupId |-> IF isGroup THEN remoteJid ELSE Undefined,
       senderName |-> PushName(remoteJid)]

\* Mutant: the guard looks at the socket only.
NoSocket == ~sock

\* sendMessage's guard: no socket, or a status other than READY.
NotConnected == ~sock \/ connectionStatus # "ready"

\* ------------------------------------------------------- ChatbotService
\* The bot's own reply as a history message (handleIncomingMessage).
BotMessage(message, response, t) ==
  [id |-> [origin |-> "bot", n |-> t],
   from |-> message.to,
   to |-> message.from,
   timestamp |-> t,
   type |-> "text",
   content |-> response,
   isGroup |-> message.isGroup,
   groupId |-> message.groupId,
   senderName |-> "AI Assistant"]

Init ==
  /\ now = 0
  /\ chatHistories = << >>
  /\ isProcessing = FALSE
  /\ sock = FALSE
  /\ connectionStatus = "disconnected"
  /\ provider \in Providers
  /\ nextId = 1
  /\ pc = [i \in MsgIds |-> "notArrived"]
  /\ msg = [i \in MsgIds |-> NoMsg]
  /\ result = [i \in MsgIds |-> NoResult]
  /\ warnings = 0
  /\ appended = [c \in RemoteJids |-> << >>]
  /\ calls = [generate |-> 0, sendMessage |-> 0]
  /\ trace = << >>
  /\ statusTrace = << >>
  /\ droppedDuring = ""
  /\ ret = NoCall
  /\ wss = FALSE
  /\ clients = << >>
  /\ delivered = NothingSent
  /\ publishedEvent = NoEvent
  /\ thrown = FALSE
  /\ chatHistoryArg = << >>
  /\ contextResult = << >>
  /\ topics = << >>
  /\ aiResult = NoCompletion
  /\ upserted = << >>
  /\ eventHandlers = << >>
  /\ invoked = NoEmit

InFlight(i) == pc[i] \in {"awaitGenerate", "awaitDelay", "awaitSend"}

\* The trace is kept from the moment the pipeline was last idle.
Since(t) == IF \E i \in MsgIds : InFlight(i) THEN t ELSE << >>

\* Where the invocation holding the busy flag is suspended.
BusyAt ==
  IF \E i \in MsgIds : InFlight(i)
  THEN pc[CHOOSE i \in MsgIds : InFlight(i)]
  ELSE ""

\* Mutant: the guard never sees the flag.
GuardNeverBusy == FALSE

\* The guard of handleIncomingMessage.
AlreadyProcessing == isProcessing

\* Mutant: no finally block, the flag stays as it was.
FlagLeftAsIs == isProcessing

\* The finally block of handleIncomingMessage: the value the flag is left at.
FinallyIsProcessing == FALSE

\* Mutant: the skip branch publishes an error event.
SkippedStepsPublish(id) ==
  << Broadcast("error_occurred",
               [message |-> "Message processing already in progress"],
               id, now) >>

\* What the skip branch of handleIncomingMessage publishes: nothing (it
\* only writes a warning to the log).
SkippedSteps(id) == << >>

\* handleIncomingMessage(message), up to its first await: the skip branch,
\* or flag set, message_received, addMessage, then processMessage up to
\* the generator call.
HandleIncomingMessage(id, message) ==
  /\ IF AlreadyProcessing
     THEN /\ warnings' = warnings + 1
          /\ pc' = [pc EXCEPT ![id] = "skipped"]
          /\ trace' = trace \o SkippedSteps(id)
          /\ droppedDuring' = BusyAt
          /\ UNCHANGED << isProcessing, chatHistories, msg, calls, appended >>
     ELSE LET stored == AddMessage(chatHistories, message.to, message, now)
              context == GetConversationContext(stored, message.to,
                                                DefaultMaxMessages)
          IN  /\ isProcessing' = TRUE
              /\ chatHistories' = stored
              /\ appended' = [appended EXCEPT ![message.to] = Append(@, message)]
              /\ msg' = [msg EXCEPT ![id] = message]
              /\ calls' = [calls EXCEPT !.generate = @ + 1]
              /\ trace' = Since(trace) \o
                   << Broadcast("message_received", message, id, now),
                      Step("addMessage", id,
                           [chatId |-> message.to, message |-> message]),
                      Step("generate", id,
                           [message |-> message.content,
                            chatHistory |-> context]) >>
              /\ pc' = [pc EXCEPT ![id] = "awaitGenerate"]
              /\ UNCHANGED << warnings, droppedDuring >>
  /\ UNCHANGED << result >>

\* The transport's messages.upsert handler for a message of a counterparty
\* with extractable text: parse it and call the registered handler.
MessagesUpsert(remoteJid) ==
  /\ sock
  /\ nextId <= MaxInbound
  /\ HandleIncomingMessage(nextId,
       ParseMessage(nextId, remoteJid, ContentOf(nextId), now))
  /\ nextId' = nextId + 1
  /\ UNCHANGED << now, sock, connectionStatus, provider,
                  statusTrace >>
  /\ UNCHANGED << storeVars, observerVars, contextVars, handlerVars >>

\* The end of handleIncomingMessage: its finally block, and the locals of
\* the invocation go out of scope.
Finish(id) ==
  /\ pc' = [pc EXCEPT ![id] = "done"]
  /\ msg' = [msg EXCEPT ![id] = NoMsg]
  /\ result' = [result EXCEPT ![id] = NoResult]
  /\ isProcessing' = FinallyIsProcessing
  /\ droppedDuring' = ""

\* processMessage's catch: the generator's Error becomes a failed result.
FailedResult(error) ==
  [success |-> FALSE, response |-> "", error |-> error, set |-> TRUE]

\* Mutant: the failure branch publishes nothing.
ProcessingFailedSilent(id, res) == << >>

\* Mutant: the failure branch also sends the error text to the sender.
ProcessingFailedReplies(id, res) ==
  << Broadcast("error_occurred",
               [message |-> "Failed to process message", error |-> res.error],
               id, now),
     Step("sendMessage", id,
          [chatId |-> msg[id].from, message |-> "Failed to process message"]) >>

\* The else branch of handleIncomingMessage (result.success is false).
ProcessingFailedSteps(id, res) ==
  << Broadcast("error_occurred",
               [message |-> "Failed to process message", error |-> res.error],
               id, now) >>

\* processMessage after the generator call: the AIResponse is published
\* and wrapped into a successful result.
SucceededResult(aiResponse) ==
  [success |-> TRUE, response |-> aiResponse.message, error |-> <<>>,
   set |-> TRUE]

\* Mutant: the flag is released before the reply delay is awaited.
FlagReleasedForDelay == FALSE

\* The busy flag across `await this.delay(this.responseDelay)` and the
\* send after it: nothing between the end of generation and the finally
\* block assigns it.
FlagDuringDelay == isProcessing

\* The chatHistory argument of the generator call of invocation id.
GenerateArg(id) ==
  LET k == CHOOSE j \in 1..Len(trace) :
             trace[j].by = id /\ trace[j].step = "generate"
  IN  trace[k].arg.chatHistory

\* The generator call returns: the rest of processMessage, then
\* handleIncomingMessage up to the delay, or its failure branch and finally.
GeneratorReturns(id, o) ==
  /\ pc[id] = "awaitGenerate"
  /\ LET aiResponse == AIResponseOf(o, provider, now, GenerateArg(id))
         res == IF o.ok THEN SucceededResult(aiResponse)
                ELSE FailedResult(AIErrorOf(o, provider))
         published == IF o.ok
                      THEN << Broadcast("ai_response_generated", aiResponse,
                                        id, now) >>
                      ELSE << >>
     IN  IF res.success /\ res.response # ""
         THEN /\ result' = [result EXCEPT ![id] = res]
              /\ trace' = trace \o << Step("generated", id, o) >> \o published
                   \o << Step("delay", id, [ms |-> "responseDelay"]) >>
              /\ pc' = [pc EXCEPT ![id] = "awaitDelay"]
              /\ isProcessing' = FlagDuringDelay
              /\ UNCHANGED << msg, droppedDuring >>
         ELSE /\ trace' = trace \o << Step("generated", id, o) >> \o published
                   \o ProcessingFailedSteps(id, res)
              /\ Finish(id)
  /\ UNCHANGED << now, chatHistories, sock, connectionStatus, provider,
                  nextId, warnings, appended, calls, statusTrace >>
  /\ UNCHANGED << storeVars, observerVars, contextVars, handlerVars >>

\* Mutant: message_sent is published although sendMessage returned false.
SendFailedStepsPublishSent(id) ==
  << Broadcast("message_sent", [content |-> result[id].response], id, now) >>

\* What handleIncomingMessage publishes when sendMessage returned false:
\* nothing (it only logs 'Failed to send WhatsApp response').
SendFailedSteps(id) == << >>

\* The delay elapses (the clock has advanced by responseDelay):
\* whatsappService.sendMessage(message.from, response).  Not connected: it
\* returns false at once, and the handler finishes.
DelayElapses(id) ==
  /\ pc[id] = "awaitDelay"
  /\ now' = now + ResponseDelay
  /\ LET call == Step("sendMessage", id,
                      [chatId |-> msg[id].from, message |-> result[id].response])
     IN  IF NotConnected
         THEN /\ trace' = trace \o << call, Step("sent", id, [ok |-> FALSE]) >>
                                \o SendFailedSteps(id)
              /\ Finish(id)
         ELSE /\ trace' = trace \o << call >>
              /\ pc' = [pc EXCEPT ![id] = "awaitSend"]
              /\ UNCHANGED << isProcessing, msg, result, droppedDuring >>
  /\ calls' = [calls EXCEPT !.sendMessage = @ + 1]
  /\ UNCHANGED << chatHistories, sock, connectionStatus, provider,
                  nextId, warnings, appended, statusTrace >>
  /\ UNCHANGED << storeVars, observerVars, contextVars, handlerVars >>

\* Mutant: message_sent is published before the bot message is stored.
SendSucceededStepsSwapped(id, botMessage) ==
  << Broadcast("message_sent", botMessage, id, now),
     Step("addMessage", id, [chatId |-> msg[id].to, message |-> botMessage]) >>

\* The steps after sendMessage returned true: the bot message is stored
\* under message.to and message_sent is published.
SendSucceededSteps(id, botMessage) ==
  << Step("addMessage", id, [chatId |-> msg[id].to, message |-> botMessage]),
     Broadcast("message_sent", botMessage, id, now) >>

\* sock.sendMessage settles: sent = true (resolved) or false (it threw).
SockSendReturns(id, sent) ==
  /\ pc[id] = "awaitSend"
  /\ IF sent
     THEN LET botMessage == BotMessage(msg[id], result[id].response, now)
          IN  /\ chatHistories' =
                   AddMessage(chatHistories, msg[id].to, botMessage, now)
              /\ appended' =
                   [appended EXCEPT ![msg[id].to] = Append(@, botMessage)]
              /\ trace' = trace \o << Step("sent", id, [ok |-> TRUE]) >>
                                \o SendSucceededSteps(id, botMessage)
     ELSE /\ trace' = trace \o << Step("sent", id, [ok |-> FALSE]) >>
                            \o SendFailedSteps(id)
          /\ UNCHANGED << chatHistories, appended >>
  /\ Finish(id)
  /\ UNCHANGED << now, sock, connectionStatus, provider, nextId,
                  warnings, calls, statusTrace >>
  /\ UNCHANGED << storeVars, observerVars, contextVars, handlerVars >>

\* updateConnectionStatus: set the status; the ChatbotService status handler
\* broadcasts connection_status_changed.
StatusSteps(status) ==
  << Broadcast("connection_status_changed", [status |-> status], 0, now) >>

\* WhatsAppService.initialize(): CONNECTING, then the socket is created.
Initialize ==
  /\ ~sock
  /\ connectionStatus' = "connecting"
  /\ sock' = TRUE
  /\ statusTrace' = StatusSteps("connecting")
  /\ UNCHANGED << trace, now, chatHistories, isProcessing, provider, nextId,
                  pc, msg, result, warnings, appended, calls, droppedDuring >>
  /\ UNCHANGED << storeVars, observerVars, contextVars, handlerVars >>

\* The connection.update handler: open -> READY; close -> CONNECTING and
\* initialize() again when reconnecting, DISCONNECTED when logged out.
ConnectionUpdate(connection, shouldReconnect) ==
  /\ sock
  /\ IF connection = "open"
     THEN /\ connectionStatus' = "ready"
          /\ statusTrace' = StatusSteps("ready")
     ELSE IF shouldReconnect
          THEN /\ connectionStatus' = "connecting"
               /\ statusTrace' = StatusSteps("connecting")
                                     \o StatusSteps("connecting")
          ELSE /\ connectionStatus' = "disconnected"
               /\ statusTrace' = StatusSteps("disconnected")
  /\ UNCHANGED << trace, now, chatHistories, isProcessing, sock, provider, nextId,
                  pc, msg, result, warnings, appended, calls, droppedDuring >>
  /\ UNCHANGED << storeVars, observerVars, contextVars, handlerVars >>

Next ==
  \/ Initialize
  \/ \E c \in {"open", "close"}, r \in BOOLEAN : ConnectionUpdate(c, r)
  \/ \E j \in RemoteJids : MessagesUpsert(j)
  \/ \E i \in MsgIds, o \in BackendOutcomes : GeneratorReturns(i, o)
  \/ \E i \in MsgIds : DelayElapses(i)
  \/ \E i \in MsgIds, s \in BOOLEAN : SockSendReturns(i, s)

Spec == Init /\ [][Next]_vars

\* ========================================= a backend that always answers
\* The pipeline when every generator call and every transport send settles
\* and the delay timer fires: an await that can resume does resume.
Fairness ==
  \A i \in MsgIds :
    /\ WF_vars(\E o \in BackendOutcomes : GeneratorReturns(i, o))
    /\ WF_vars(DelayElapses(i))
    /\ WF_vars(\E s \in BOOLEAN : SockSendReturns(i, s))

\* The pipeline after construction with the OpenAI backend.
PipelineInit == Init /\ provider = "openai"

SpecLive == PipelineInit /\ [][Next]_vars /\ Fairness

\* ================================================ a backend that hangs
\* The pipeline with a backend that answers the first message delivered
\* and never settles a call made for a later one: generateResponse is
\* awaited without a timeout.
HungIds == MsgIds \ {1}

HungNext ==
  \/ Initialize
  \/ \E c \in {"open", "close"}, r \in BOOLEAN : ConnectionUpdate(c, r)
  \/ \E j \in RemoteJids : MessagesUpsert(j)
  \/ \E i \in MsgIds \ HungIds, o \in BackendOutcomes : GeneratorReturns(i, o)
  \/ \E i \in MsgIds : DelayElapses(i)
  \/ \E i \in MsgIds, s \in BOOLEAN : SockSendReturns(i, s)

SpecHung == PipelineInit /\ [][HungNext]_vars

\* =========================================== ChatHistoryService, direct
\* The public operations of ChatHistoryService, called in any order on the
\* store (the pipeline is idle).

\* What is passed to addMessage for a chat: an inbound message of that
\* chat, carrying the sender's timestamp.
StoreMessages(chatId) == { ParseMessage(1, chatId, ContentOf(1), 0) }

\* What is passed to addMessage before the read operations are called: one
\* of two inbound messages of the chat.
ReadMessages(chatId) ==
  { ParseMessage(k, chatId, ContentOf(k), 0) : k \in {1, 2} }

\* The optional fields of WhatsAppMessage.
OptionalKeys == {"groupId", "senderName"}

\* Reading a field of an object: undefined when the key is absent.
Get(obj, key) == IF key \in DOMAIN obj THEN obj[key] ELSE Undefined

\* Mutant: a key whose value is undefined is written as the string
\* "undefined".
StringifyMessageKeepsUndefined(m) ==
  [k \in DOMAIN m |->
     IF k \in OptionalKeys /\ m[k] = Undefined THEN "undefined" ELSE m[k]]

\* JSON.stringify of one message: a key whose value is undefined is left
\* out of the text.
StringifyMessage(m) ==
  [k \in {key \in DOMAIN m :
            ~(key \in OptionalKeys /\ m[key] = Undefined)} |-> m[k]]

\* JSON.stringify(chatHistory, null, 2): the text, as the value it denotes.
JsonStringify(chatHistory) ==
  [kind |-> "object",
   value |-> [chatId |-> chatHistory.chatId,
              messages |-> [k \in 1..Len(chatHistory.messages) |->
                              StringifyMessage(chatHistory.messages[k])],
              lastUpdated |-> chatHistory.lastUpdated]]

\* A text JSON.parse rejects, and the text `null`.
GarbageText == [kind |-> "garbage"]
NullText == [kind |-> "null"]

\* The return value null.
NullValue == [kind |-> "none"]

\* exportChatHistory(chatId)
ExportChatHistory(h, chatId) ==
  IF chatId \notin DOMAIN h THEN NullValue ELSE JsonStringify(h[chatId])

\* JSON.parse throws a SyntaxError on the text.
ParseThrows(jsonData) == jsonData.kind = "garbage"

\* Mutant: the embedded chatId is not compared with the target.
ChatIdMismatchIgnored(parsed, chatId) == FALSE

\* The check `chatHistory.chatId !== chatId` of importChatHistory.
ChatIdMismatch(parsed, chatId) == parsed.chatId # chatId

\* importChatHistory(chatId, jsonData): the return value and the store
\* afterwards.  A SyntaxError of JSON.parse, and the TypeError of reading
\* .chatId of null, are caught.
ImportChatHistory(h, chatId, jsonData) ==
  IF ParseThrows(jsonData) \/ jsonData.kind = "null"
  THEN [ok |-> FALSE, store |-> h]
  ELSE LET parsed == jsonData.value
       IN  IF ChatIdMismatch(parsed, chatId)
           THEN [ok |-> FALSE, store |-> h]
           ELSE [ok |-> TRUE,
                 store |-> [c \in DOMAIN h \cup {chatId} |->
                              IF c = chatId THEN parsed ELSE h[c]]]

\* Mutant: a conversation exactly at the cutoff is removed as well.
IsOldInclusive(chatHistory, cutoffTime) == chatHistory.lastUpdated <= cutoffTime

\* The test of cleanupOldHistories: lastUpdated < cutoffTime.
IsOld(chatHistory, cutoffTime) == chatHistory.lastUpdated < cutoffTime

\* cleanupOldHistories(daysOld) at time t: the store afterwards and the
\* count returned.
CleanupOldHistories(h, daysOld, t) ==
  LET cutoffTime == t - (daysOld * MsPerDay)
      old == {c \in DOMAIN h : IsOld(h[c], cutoffTime)}
  IN  [store |-> [c \in DOMAIN h \ old |-> h[c]],
       cleanedCount |-> Cardinality(old)]

\* getRecentMessages(chatId, count): messages.slice(-count)
GetRecentMessages(h, chatId, count) ==
  SliceLast(GetChatHistory(h, chatId), count)

\* ------------------------------------------------------------ bounds
\* The number of days the clock advances between store calls.
MaxDays == 2

Days == 0..MaxDays
\* The counts and limits the read operations are called with.
Counts == 0..(MaxHistory + 1)

\* A history exported by a store configured with a longer limit.
LongerHistory(chatId) ==
  [chatId |-> chatId,
   messages |-> [k \in 1..(MaxHistory + 1) |->
                   ParseMessage(k, chatId, ContentOf(k), 0)],
   lastUpdated |-> 0]

\* The texts importChatHistory is called with: an export of this store, an
\* export of a store with a longer limit, the text `null`, and a text that
\* is not JSON.
JsonTexts(h) ==
  {ExportChatHistory(h, c) : c \in DOMAIN h}
    \cup {JsonStringify(LongerHistory(UserJid)), NullText, GarbageText}

\* A call, its argument besides the chatId and the value it returned,
\* each a record of one field named after what it holds.
Call(op, chatId, arg, value) ==
  [op |-> op, chatId |-> chatId, arg |-> arg, result |-> value]
Void == [void |-> TRUE]

StoreFrame == UNCHANGED << pipelineVars, observerVars, contextVars, handlerVars >>

AddMessageCall(chatId, message) ==
  /\ chatHistories' = AddMessage(chatHistories, chatId, message, now)
  /\ ret' = Call("addMessage", chatId, [message |-> message], Void)
  /\ UNCHANGED now
  /\ StoreFrame

ClearChatHistoryCall(chatId) ==
  /\ chatHistories' = [c \in DOMAIN chatHistories \ {chatId} |->
                         chatHistories[c]]
  /\ ret' = Call("clearChatHistory", chatId, Void, Void)
  /\ UNCHANGED now
  /\ StoreFrame

CleanupOldHistoriesCall(daysOld) ==
  /\ LET r == CleanupOldHistories(chatHistories, daysOld, now)
     IN  /\ chatHistories' = r.store
         /\ ret' = Call("cleanupOldHistories", Undefined,
                        [daysOld |-> daysOld], [count |-> r.cleanedCount])
  /\ UNCHANGED now
  /\ StoreFrame

ExportChatHistoryCall(chatId) ==
  /\ ret' = Call("exportChatHistory", chatId, Void,
                 [text |-> ExportChatHistory(chatHistories, chatId)])
  /\ UNCHANGED << now, chatHistories >>
  /\ StoreFrame

ImportChatHistoryCall(chatId, jsonData) ==
  /\ LET r == ImportChatHistory(chatHistories, chatId, jsonData)
     IN  /\ chatHistories' = r.store
         /\ ret' = Call("importChatHistory", chatId,
                        [jsonData |-> jsonData], [ok |-> r.ok])
  /\ UNCHANGED now
  /\ StoreFrame

GetRecentMessagesCall(chatId, count) ==
  /\ ret' = Call("getRecentMessages", chatId, [count |-> count],
                 [messages |->
                    GetRecentMessages(chatHistories, chatId, count)])
  /\ UNCHANGED << now, chatHistories >>
  /\ StoreFrame

GetConversationContextCall(chatId, maxMessages) ==
  /\ ret' = Call("getConversationContext", chatId, [count |-> maxMessages],
                 [messages |->
                    GetConversationContext(chatHistories, chatId,
                                           maxMessages)])
  /\ UNCHANGED << now, chatHistories >>
  /\ StoreFrame

\* A day passes between two calls.
DayPasses ==
  /\ now < MaxDays * MsPerDay
  /\ now' = now + MsPerDay
  /\ UNCHANGED << chatHistories, ret >>
  /\ StoreFrame

\* The store after construction; the generator backend plays no part.
StoreInit == Init /\ provider = "openai"

StoreNext ==
  \/ \E c \in RemoteJids : \E m \in StoreMessages(c) : AddMessageCall(c, m)
  \/ \E c \in RemoteJids : ClearChatHistoryCall(c)
  \/ \E d \in Days : CleanupOldHistoriesCall(d)
  \/ \E c \in RemoteJids : ExportChatHistoryCall(c)
  \/ \E c \in RemoteJids : \E t \in JsonTexts(chatHistories) :
       ImportChatHistoryCall(c, t)
  \/ DayPasses

SpecStore == StoreInit /\ [][StoreNext]_vars

\* The read operations, on every store addMessage can build.
ReadsNext ==
  \/ \E c \in RemoteJids : \E m \in ReadMessages(c) : AddMessageCall(c, m)
  \/ \E c \in RemoteJids, n \in Counts : GetRecentMessagesCall(c, n)
  \/ \E c \in RemoteJids, n \in Counts : GetConversationContextCall(c, n)

SpecReads == StoreInit /\ [][ReadsNext]_vars

\* ======================================== ChatbotService.getStatus
\* getTotalChats(): chatHistories.size
GetTotalChats(h) == Cardinality(DOMAIN h)

\* The loop of getTotalMessages over the conversations in S.
RECURSIVE TotalOver(_, _)
TotalOver(h, S) ==
  IF S = {} THEN 0
  ELSE LET c == CHOOSE x \in S : TRUE
       IN  Len(h[c].messages) + TotalOver(h, S \ {c})

\* Mutant: the conversations are counted, not their messages.
GetTotalMessagesCountsChats(h) == Cardinality(DOMAIN h)

\* getTotalMessages()
GetTotalMessages(h) == TotalOver(h, DOMAIN h)

\* WhatsAppService.isConnected()
IsConnected == connectionStatus = "ready"

\* AIService.validateConfig(): the configuration carries an API key and a
\* model name.
ValidateConfig == TRUE

\* getStatus()
GetStatus ==
  [whatsappConnected |-> IsConnected,
   aiServiceConnected |-> ValidateConfig,
   webSocketClients |-> Len(clients),
   isProcessing |-> isProcessing,
   totalChats |-> GetTotalChats(chatHistories),
   totalMessages |-> GetTotalMessages(chatHistories)]

\* ================================ ChatbotService.sendManualMessage
\* Manual sends by an operator while the pipeline runs with one
\* counterparty.

\* The text an operator sends.
ManualText == "ping"

\* sock.sendMessage(chatId, { text: message }), as sendMessage calls it.
SockSendMessage(chatId, message) ==
  [jid |-> chatId, content |-> [text |-> message]]

\* Mutant: the manual send reports success whatever the transport returned.
ManualResultAlwaysTrue(sent) == TRUE

\* sendManualMessage returns what whatsappService.sendMessage returned.
ManualResult(sent) == sent

\* A manual send is suspended at `await this.sock.sendMessage`.
ManualPending == ret.op = "sendManualMessage" /\ ~ret.result.returned

\* sendManualMessage(chatId, message) up to the await of sendMessage: false
\* at once when not connected, else the transport call is in flight.
SendManualMessage(chatId, message) ==
  /\ ~ManualPending
  /\ ret' = Call("sendManualMessage", chatId, [text |-> message],
                 IF NotConnected
                 THEN [returned |-> TRUE, value |-> ManualResult(FALSE),
                       transmitted |-> << >>]
                 ELSE [returned |-> FALSE, value |-> FALSE,
                       transmitted |->
                         << SockSendMessage(chatId, message) >>])
  /\ UNCHANGED << now, chatHistories, pipelineVars, observerVars,
                  contextVars, handlerVars >>

\* The transport call of a manual send settles: sent = true (resolved) or
\* false (it threw and sendMessage caught it).
ManualSendReturns(sent) ==
  /\ ManualPending
  /\ ret' = [ret EXCEPT !.result.returned = TRUE,
                        !.result.value = ManualResult(sent)]
  /\ UNCHANGED << now, chatHistories, pipelineVars, observerVars,
                  contextVars, handlerVars >>

ManualNext ==
  \/ Initialize
  \/ \E c \in {"open", "close"}, r \in BOOLEAN : ConnectionUpdate(c, r)
  \/ MessagesUpsert(UserJid)
  \/ \E i \in MsgIds, o \in BackendOutcomes : GeneratorReturns(i, o)
  \/ \E i \in MsgIds : DelayElapses(i)
  \/ \E i \in MsgIds, s \in BOOLEAN : SockSendReturns(i, s)
  \/ \E c \in RemoteJids : SendManualMessage(c, ManualText)
  \/ \E s \in BOOLEAN : ManualSendReturns(s)

SpecManual == StoreInit /\ [][ManualNext]_vars

\* ===================================== the pipeline and store maintenance
\* The pipeline with one counterparty, interleaved with the maintenance
\* operations of the store that ChatbotService passes through
\* (clearChatHistory, cleanupOldHistories, importChatHistory).  Every one
\* of them is synchronous: it runs between two steps of the handler.
InterleavedNext ==
  \/ Initialize
  \/ \E c \in {"open", "close"}, r \in BOOLEAN : ConnectionUpdate(c, r)
  \/ MessagesUpsert(UserJid)
  \/ \E i \in MsgIds, o \in BackendOutcomes : GeneratorReturns(i, o)
  \/ \E i \in MsgIds : DelayElapses(i)
  \/ \E i \in MsgIds, s \in BOOLEAN : SockSendReturns(i, s)
  \/ ClearChatHistoryCall(UserJid)
  \/ CleanupOldHistoriesCall(0)
  \/ ImportChatHistoryCall(UserJid, JsonStringify(LongerHistory(UserJid)))

SpecInterleaved == PipelineInit /\ [][InterleavedNext]_vars

\* handleIncomingMessage is suspended at `await processMessage` (the
\* generator call) or at `await this.delay(...)`.
GeneratorOrDelayPending ==
  \E i \in MsgIds : pc[i] \in {"awaitGenerate", "awaitDelay"}

\* The same, with the maintenance operations called only while the
\* generator call or the reply delay of a message is pending.
PendingNext ==
  \/ Initialize
  \/ \E c \in {"open", "close"}, r \in BOOLEAN : ConnectionUpdate(c, r)
  \/ MessagesUpsert(UserJid)
  \/ \E i \in MsgIds, o \in BackendOutcomes : GeneratorReturns(i, o)
  \/ \E i \in MsgIds : DelayElapses(i)
  \/ \E i \in MsgIds, s \in BOOLEAN : SockSendReturns(i, s)
  \/ GeneratorOrDelayPending /\ ClearChatHistoryCall(UserJid)
  \/ GeneratorOrDelayPending /\ CleanupOldHistoriesCall(0)
  \/ GeneratorOrDelayPending
       /\ ImportChatHistoryCall(UserJid, JsonStringify(LongerHistory(UserJid)))

SpecPending == PipelineInit /\ [][PendingNext]_vars

\* ========================================= WhatsAppService, messages.upsert
\* The most messages one messages.upsert event carries.
MaxBatch == 2

\* extractMessageContent found no text (or msg.message is missing).
NoText == "<null>"

\* A message of a messages.upsert event: key.id, key.remoteJid, key.fromMe
\* and what extractMessageContent finds in it.  A message of the bot's own
\* account carries a text the bot sends.
RawMessage(id, fromMe, hasText) ==
  [id |-> id, remoteJid |-> UserJid, fromMe |-> fromMe,
   content |-> IF ~hasText THEN NoText
               ELSE IF fromMe THEN Fallback ELSE ContentOf(id)]

\* The batches (m.messages) an event can carry when the next key.id is id.
Batches(id) ==
  { [k \in DOMAIN kinds |->
       RawMessage(id + k - 1, kinds[k][1], kinds[k][2])] :
    kinds \in UNION {[1..n -> BOOLEAN \X BOOLEAN] : n \in 1..MaxBatch} }

\* Mutant: the guard does not look at key.fromMe.
DeliverableOwnIncluded(raw) == raw.content # NoText

\* The guard of the messages.upsert handler (`!msg.key.fromMe &&
\* msg.message`) and of parseMessage (`if (!content) return null`).
Deliverable(raw) == ~raw.fromMe /\ raw.content # NoText

\* The messages.upsert handler for an event with a batch of messages:
\* `const msg = m.messages[0]`, the guard, parseMessage and the registered
\* handler (ChatbotService's, which calls handleIncomingMessage).
MessagesUpsertBatch(batch) ==
  /\ sock
  /\ nextId + Len(batch) - 1 <= MaxInbound
  /\ upserted' = upserted \o batch
  /\ LET first == batch[1]
     IN  IF Deliverable(first)
         THEN HandleIncomingMessage(first.id,
                ParseMessage(first.id, first.remoteJid, first.content, now))
         ELSE UNCHANGED << isProcessing, chatHistories, appended, msg, calls,
                           trace, pc, warnings, droppedDuring, result >>
  /\ nextId' = nextId + Len(batch)
  /\ UNCHANGED << now, sock, connectionStatus, provider, statusTrace >>
  /\ UNCHANGED << storeVars, observerVars, contextVars, eventHandlers,
                  invoked >>

TransportNext ==
  \/ Initialize
  \/ ConnectionUpdate("open", FALSE)
  \/ \E batch \in Batches(nextId) : MessagesUpsertBatch(batch)
  \/ \E i \in MsgIds, o \in BackendOutcomes : GeneratorReturns(i, o)
  \/ \E i \in MsgIds : DelayElapses(i)
  \/ \E i \in MsgIds, s \in BOOLEAN : SockSendReturns(i, s)

SpecTransport == PipelineInit /\ [][TransportNext]_vars

\* ================================ ChatHistoryService, MAX_HISTORY_LENGTH=0
\* A store constructed with maxHistoryLength = 0 (the configuration accepts
\* any number), and addMessage called on it.
ZeroLength == 0

\* The number of messages added to one conversation of that store.
MaxZeroAdds == 3

\* addMessage(chatId, message) at time t on that store.
AddMessageZero(h, chatId, message, t) ==
  LET pushed == Append(GetChatHistory(h, chatId), message)
      entry == [chatId |-> chatId,
                messages |-> LimitHistoryTo(ZeroLength, pushed),
                lastUpdated |-> t]
  IN  [c \in DOMAIN h \cup {chatId} |-> IF c = chatId THEN entry ELSE h[c]]

AddMessageZeroCall(chatId, message) ==
  /\ Len(GetChatHistory(chatHistories, chatId)) < MaxZeroAdds
  /\ chatHistories' = AddMessageZero(chatHistories, chatId, message, now)
  /\ ret' = Call("addMessage", chatId, [message |-> message], Void)
  /\ UNCHANGED now
  /\ StoreFrame

ZeroNext ==
  \E c \in RemoteJids : \E m \in ReadMessages(c) : AddMessageZeroCall(c, m)

SpecZero == StoreInit /\ [][ZeroNext]_vars

\* ============================================= WebSocketService, direct
\* The observers' sockets, the events the services publish and the messages
\* observers send, in any order.

\* EventType
EventTypes ==
  {"message_received", "message_sent", "connection_status_changed",
   "ai_response_generated", "error_occurred"}

\* What the services pass to sendMessageReceived, sendMessageSent,
\* sendConnectionStatus, sendAIResponseGenerated and sendError.
EventData(type) ==
  LET inbound == ParseMessage(1, UserJid, ContentOf(1), 0)
  IN  CASE type = "message_received" -> inbound
        [] type = "message_sent" -> BotMessage(inbound, "sure", now)
        [] type = "connection_status_changed" -> [status |-> "ready"]
        [] type = "ai_response_generated" ->
             [message |-> "sure", confidence |-> 90,
              context |-> << "hello" >>, timestamp |-> now]
        [] OTHER -> [message |-> "Failed to process message",
                     error |-> AIErrorOf([diag |-> "rate limit"], "openai")]

\* sendMessageReceived and the other send* methods: the AppEvent.
AppEvent(type, data, t) == [type |-> type, data |-> data, timestamp |-> t]

\* handleConnection: the initial message to the new observer.
ConnectionMessage(t) ==
  [type |-> "connection",
   data |-> [status |-> "connected", timestamp |-> t],
   timestamp |-> t]

\* broadcastStatus(status): the WebSocketMessage.
BroadcastStatus(status, t) ==
  [type |-> "status", data |-> status, timestamp |-> t]

\* The WebSocketMessages an observer sends to the server.
ClientMessages ==
  { [type |-> "message", data |-> [text |-> "hi"], timestamp |-> 0],
    [type |-> "status", data |-> [status |-> "ok"], timestamp |-> 0],
    [type |-> "ping", data |-> [text |-> ""], timestamp |-> 0] }

\* JSON.stringify(message), as the value the text denotes: in the data of
\* a wrapped event, keys whose value is undefined are left out.
Serialize(message) ==
  IF message.type = "message" /\ "data" \in DOMAIN message.data
  THEN [message EXCEPT !.data.data = StringifyMessage(@)]
  ELSE message

\* Mutant: broadcastMessage has no try/catch around client.send.
SendErrorEscapes == FALSE

\* The try/catch around client.send in broadcastMessage and sendToClient.
CatchesSendError == TRUE

\* The loop of broadcastMessage over this.clients from position k on;
\* `throwing` are the sockets whose send raises, `to` the sockets the text
\* has been sent to.  The sockets sent to in the end, and whether an
\* exception left the loop.
RECURSIVE BroadcastLoop(_, _, _, _)
BroadcastLoop(cs, k, throwing, to) ==
  IF k > Len(cs) THEN [to |-> to, thrown |-> FALSE]
  ELSE IF cs[k].readyState # "OPEN"
       THEN BroadcastLoop(cs, k + 1, throwing, to)
       ELSE IF cs[k].ws \in throwing
            THEN IF CatchesSendError
                 THEN BroadcastLoop(cs, k + 1, throwing, to)
                 ELSE [to |-> to, thrown |-> TRUE]
            ELSE BroadcastLoop(cs, k + 1, throwing, to \cup {cs[k].ws})

\* broadcastMessage(message)
BroadcastMessage(message, throwing) ==
  LET r == BroadcastLoop(clients, 1, throwing, {})
  IN  /\ delivered' = [text |-> Serialize(message), to |-> r.to]
      /\ thrown' = (thrown \/ r.thrown)

ObserverFrame == UNCHANGED << now, chatHistories, pipelineVars, storeVars,
                              contextVars, handlerVars >>

Connected == {clients[k].ws : k \in 1..Len(clients)}

\* WebSocketService.initialize(): the server is created and listens.
WebSocketInitialize ==
  /\ ~wss
  /\ wss' = TRUE
  /\ UNCHANGED << clients, delivered, publishedEvent, thrown >>
  /\ ObserverFrame

\* wss.on('connection'): handleConnection(ws) adds the socket and sends it
\* the connection message through sendToClient.
HandleConnection(ws, sendThrows) ==
  /\ wss
  /\ ws \notin Connected
  /\ clients' = Append(clients, [ws |-> ws, readyState |-> "OPEN"])
  /\ delivered' = [text |-> Serialize(ConnectionMessage(now)),
                    to |-> IF sendThrows THEN {} ELSE {ws}]
  /\ thrown' = (thrown \/ (sendThrows /\ ~CatchesSendError))
  /\ publishedEvent' = NoEvent
  /\ UNCHANGED wss
  /\ ObserverFrame

\* The socket of an observer starts closing: its readyState is no longer
\* OPEN, its close event has not fired yet.
SocketClosing(ws) ==
  /\ \E k \in 1..Len(clients) :
       /\ clients[k].ws = ws
       /\ clients[k].readyState = "OPEN"
       /\ clients' = [clients EXCEPT ![k].readyState = "CLOSING"]
  /\ UNCHANGED << wss, delivered, publishedEvent, thrown >>
  /\ ObserverFrame

\* ws.on('close') and ws.on('error'): the socket is deleted from clients.
SocketGone(ws) ==
  /\ ws \in Connected
  /\ clients' = SelectSeq(clients, LAMBDA c : c.ws # ws)
  /\ UNCHANGED << wss, delivered, publishedEvent, thrown >>
  /\ ObserverFrame

\* One of the send* methods: broadcastEvent of the AppEvent.
SendEvent(type, throwing) ==
  /\ publishedEvent' = AppEvent(type, EventData(type), now)
  /\ BroadcastMessage(BroadcastEvent(type, EventData(type), now), throwing)
  /\ UNCHANGED << wss, clients >>
  /\ ObserverFrame

\* ws.on('message') with a text that parses: handleClientMessage.
HandleClientMessage(ws, message, throwing) ==
  /\ ws \in Connected
  /\ CASE message.type = "message" -> BroadcastMessage(message, throwing)
       [] message.type = "status" ->
            BroadcastMessage(BroadcastStatus(message.data, now), throwing)
       [] OTHER -> UNCHANGED << delivered, thrown >>
  /\ publishedEvent' = NoEvent
  /\ UNCHANGED << wss, clients >>
  /\ ObserverFrame

ObserverInit ==
  /\ Init
  /\ provider = "openai"

ObserverNext ==
  \/ WebSocketInitialize
  \/ \E ws \in Sockets, t \in BOOLEAN : HandleConnection(ws, t)
  \/ \E ws \in Sockets : SocketClosing(ws)
  \/ \E ws \in Sockets : SocketGone(ws)
  \/ \E e \in EventTypes, F \in SUBSET Sockets : SendEvent(e, F)
  \/ \E ws \in Sockets, m \in ClientMessages, F \in SUBSET Sockets :
       HandleClientMessage(ws, m, F)

SpecObservers == ObserverInit /\ [][ObserverNext]_vars

\* ================================= WebSocketService, observers' payloads
\* WebSocketMessages an observer can send that have the shape of what
\* broadcastEvent sends: type 'message' with an AppEvent as data.
EventShapedMessages ==
  {BroadcastEvent(e, EventData(e), now) : e \in EventTypes}

\* Observers attach and leave, the services publish events, and observers
\* send messages of any shape.
PayloadNext ==
  \/ WebSocketInitialize
  \/ \E ws \in Sockets : HandleConnection(ws, FALSE)
  \/ \E ws \in Sockets : SocketGone(ws)
  \/ \E e \in EventTypes : SendEvent(e, {})
  \/ \E ws \in Sockets, m \in ClientMessages \cup EventShapedMessages :
       HandleClientMessage(ws, m, {})

SpecPayloads == ObserverInit /\ [][PayloadNext]_vars

\* ====================================== WebSocketService, event handlers
\* The most handlers registered with onEvent.
MaxHandlers == 3

\* The handlers registered for an event type, in registration order.
HandlersOf(registry, eventType) ==
  IF eventType \in DOMAIN registry THEN registry[eventType] ELSE << >>

\* All registered handlers.
Registered ==
  UNION { {eventHandlers[t][k] : k \in 1..Len(eventHandlers[t])} :
          t \in DOMAIN eventHandlers }

\* onEvent(eventType, handler): the list of the type is created when it
\* is missing, and the handler is pushed.  `raises` tells whether the
\* handler throws when it is called.
OnEvent(eventType, raises) ==
  /\ Cardinality(Registered) < MaxHandlers
  /\ LET handler == [id |-> Cardinality(Registered) + 1, raises |-> raises]
     IN  eventHandlers' =
           [t \in DOMAIN eventHandlers \cup {eventType} |->
              IF t = eventType
              THEN Append(HandlersOf(eventHandlers, t), handler)
              ELSE eventHandlers[t]]
  /\ UNCHANGED << invoked, upserted, observerVars >>
  /\ UNCHANGED << now, chatHistories, pipelineVars, storeVars, contextVars >>

\* Mutant: emitEvent calls the handlers without a try/catch.
HandlerErrorEscapes == FALSE

\* The try/catch around handler(event.data) in emitEvent.
CatchesHandlerError == TRUE

\* handlers.forEach of emitEvent from position k on: the calls made, and
\* whether an exception left the loop.
RECURSIVE EmitLoop(_, _, _, _)
EmitLoop(handlers, k, data, made) ==
  IF k > Len(handlers) THEN [calls |-> made, thrown |-> FALSE]
  ELSE LET call == [handler |-> handlers[k].id, data |-> data]
       IN  IF handlers[k].raises /\ ~CatchesHandlerError
           THEN [calls |-> Append(made, call), thrown |-> TRUE]
           ELSE EmitLoop(handlers, k + 1, data, Append(made, call))

\* emitEvent(event)
EmitEvent(event) ==
  /\ LET r == EmitLoop(HandlersOf(eventHandlers, event.type), 1,
                       event.data, << >>)
     IN  /\ invoked' = [type |-> event.type, calls |-> r.calls]
         /\ thrown' = (thrown \/ r.thrown)
  /\ UNCHANGED << eventHandlers, upserted, wss, clients, delivered,
                  publishedEvent >>
  /\ UNCHANGED << now, chatHistories, pipelineVars, storeVars, contextVars >>

EventsNext ==
  \/ \E e \in EventTypes, raises \in BOOLEAN : OnEvent(e, raises)
  \/ \E e \in EventTypes : EmitEvent(AppEvent(e, EventData(e), now))

SpecEvents == ObserverInit /\ [][EventsNext]_vars

\* ========================================== ChatbotService.shutdown
\* The transport connects, observers attach, and the chatbot is shut down.

\* A shutdown is suspended at `await this.sock.logout()`.
LogoutPending == ret.op = "shutdown" /\ ~ret.result.returned

\* WebSocketService.close(): with a server, it is closed and the clients
\* are cleared; without one, nothing happens.
Close ==
  IF wss
  THEN wss' = FALSE /\ clients' = << >>
  ELSE UNCHANGED << wss, clients >>

\* shutdown() up to its first await.  Without a socket disconnect() sets
\* the status to DISCONNECTED and close() follows; with one, logout() is
\* in flight.
Shutdown ==
  /\ ~LogoutPending
  /\ IF sock
     THEN /\ ret' = Call("shutdown", Undefined, Void,
                         [returned |-> FALSE, raised |-> FALSE])
          /\ UNCHANGED << connectionStatus, statusTrace, wss, clients >>
     ELSE /\ ret' = Call("shutdown", Undefined, Void,
                         [returned |-> TRUE, raised |-> FALSE])
          /\ connectionStatus' = "disconnected"
          /\ statusTrace' = StatusSteps("disconnected")
          /\ Close
  /\ UNCHANGED << now, chatHistories, isProcessing, sock, provider, nextId,
                  pc, msg, result, warnings, appended, calls, trace,
                  droppedDuring, delivered, publishedEvent, thrown,
                  contextVars, handlerVars >>

\* sock.logout() settles.  Resolved: the socket is dropped, the status
\* becomes DISCONNECTED and close() follows.  Rejected: disconnect()
\* rejects, and the catch block of shutdown() logs the error.
LogoutSettles(ok) ==
  /\ LogoutPending
  /\ ret' = [ret EXCEPT !.result.returned = TRUE]
  /\ IF ok
     THEN /\ sock' = FALSE
          /\ connectionStatus' = "disconnected"
          /\ statusTrace' = StatusSteps("disconnected")
          /\ Close
     ELSE UNCHANGED << sock, connectionStatus, statusTrace, wss, clients >>
  /\ UNCHANGED << now, chatHistories, isProcessing, provider, nextId,
                  pc, msg, result, warnings, appended, calls, trace,
                  droppedDuring, delivered, publishedEvent, thrown,
                  contextVars, handlerVars >>

ShutdownNext ==
  \/ Initialize
  \/ \E c \in {"open", "close"}, r \in BOOLEAN : ConnectionUpdate(c, r)
  \/ WebSocketInitialize
  \/ \E ws \in Sockets : HandleConnection(ws, FALSE)
  \/ Shutdown
  \/ \E ok \in BOOLEAN : LogoutSettles(ok)

SpecShutdown == ObserverInit /\ [][ShutdownNext]_vars

\* ================================ AIService.buildConversationContext
\* The JIDs that contain '@s.whatsapp.net' (String.prototype.includes).
IncludesUserServer(jid) == jid \in {UserJid, ParticipantJid}

\* String.prototype.trim on the bodies that occur.
Trim(content) == IF content = BlankText THEN "" ELSE content

\* Mutant: every message is kept, blank or not.
KeepsEveryContent(content) == TRUE

\* `if (content.trim())`: the trimmed body is a non-empty string.
KeepsContent(content) == Trim(content) # ""

\* The role given to a message: assistant if msg.from includes
\* '@s.whatsapp.net', user otherwise.
RoleOf(message) ==
  IF IncludesUserServer(message.from) THEN "assistant" ELSE "user"

\* buildConversationContext(chatHistory)
BuildConversationContext(history) ==
  LET recentHistory == SliceLast(history, ContextWindow)
      kept == SelectSeq(recentHistory, LAMBDA m : KeepsContent(m.content))
  IN  [k \in 1..Len(kept) |->
         [role |-> RoleOf(kept[k]), content |-> kept[k].content]]

\* The k-th message of a conversation with remoteJid: inbound messages and
\* the bot's replies to them alternate; either may be blank.
HistoryMessage(k, remoteJid, blank) ==
  LET inbound == ParseMessage(k, remoteJid,
                              IF blank /\ k % 2 = 1 THEN BlankText
                              ELSE ContentOf(k), 0)
  IN  IF k % 2 = 1 THEN inbound
      ELSE BotMessage(inbound, IF blank THEN BlankText ELSE "sure", 0)

\* generateResponse is called with a history one message longer than the
\* last time and builds the conversation context from it.
BuildConversationContextCall(remoteJid, blank) ==
  /\ Len(chatHistoryArg) < MaxContextLen
  /\ chatHistoryArg # << >> => remoteJid = chatHistoryArg[1].to
  /\ chatHistoryArg' =
       Append(chatHistoryArg,
              HistoryMessage(Len(chatHistoryArg) + 1, remoteJid, blank))
  /\ contextResult' = BuildConversationContext(chatHistoryArg')
  /\ UNCHANGED << topics, aiResult >>
  /\ UNCHANGED << now, chatHistories, pipelineVars, storeVars, observerVars,
                  handlerVars >>

ContextNext ==
  \E j \in RemoteJids, b \in BOOLEAN : BuildConversationContextCall(j, b)

SpecContext == StoreInit /\ [][ContextNext]_vars

\* ========================================== AIService.extractContext
\* The longest history extractContext is called with.
MaxTopicLen == 6

\* generateResponse is called with a history one message longer than the
\* last time and extracts the topics from it.
ExtractContextCall(content) ==
  /\ Len(chatHistoryArg) < MaxTopicLen
  /\ chatHistoryArg' =
       Append(chatHistoryArg,
              ParseMessage(Len(chatHistoryArg) + 1, UserJid, content, 0))
  /\ topics' = ExtractContext(chatHistoryArg')
  /\ UNCHANGED << contextResult, aiResult >>
  /\ UNCHANGED << now, chatHistories, pipelineVars, storeVars, observerVars,
                  handlerVars >>

TopicsNext == \E content \in TopicTexts : ExtractContextCall(content)

SpecTopics == StoreInit /\ [][TopicsNext]_vars

\* =========================================== AIService.generateResponse
\* The longest history generateResponse is called with.
MaxGenLen == 2

\* choices[0]?.finish_reason: the values of the API, and undefined when
\* the field or the choice is absent.
FinishSignals == {"stop", "length", "content_filter", "tool_calls", Undefined}

\* What the backend may answer: a completion with text or without usable
\* text under every finish signal, or a failure with a diagnostic.
Completions ==
  { [ok |-> TRUE, content |-> c, finish |-> f, diag |-> ""] :
      c \in {"sure", ""}, f \in FinishSignals }
    \cup { [ok |-> FALSE, content |-> "", finish |-> "", diag |-> "rate limit"] }

\* generateResponse(message, chatHistory) with a history one message longer
\* than the last time, the backend answering o: the AIResponse returned or
\* the Error thrown.
GenerateResponseCall(content, o) ==
  /\ Len(chatHistoryArg) < MaxGenLen
  /\ chatHistoryArg' =
       Append(chatHistoryArg,
              ParseMessage(Len(chatHistoryArg) + 1, UserJid, content, 0))
  /\ aiResult' =
       [completion |-> o,
        value |-> IF o.ok
                  THEN [response |->
                          AIResponseOf(o, provider, now, chatHistoryArg')]
                  ELSE [error |-> AIErrorOf(o, provider)]]
  /\ UNCHANGED << contextResult, topics >>
  /\ UNCHANGED << now, chatHistories, pipelineVars, storeVars, observerVars,
                  handlerVars >>

GenerateNext ==
  \E content \in TopicTexts, o \in Completions :
    GenerateResponseCall(content, o)

SpecGenerate == Init /\ [][GenerateNext]_vars

\* ================================================================ claims
\* The steps of the trace made by handler invocation i.
StepsBy(i) == SelectSeq(trace, LAMBDA e : e.by = i)

\* The name of a step: the event type of a broadcast, the call otherwise.
Label(e) == IF e.step = "broadcast" THEN e.arg.data.type ELSE e.step
Labels(seq) == [k \in 1..Len(seq) |-> Label(seq[k])]

CountLabel(i, label) ==
  Cardinality({k \in 1..Len(trace) :
                 trace[k].by = i /\ Label(trace[k]) = label})

Accepted(i) == pc[i] \in {"awaitGenerate", "awaitDelay", "awaitSend", "done"}

Min(a, b) == IF a < b THEN a ELSE b

\* The last n elements of s (all of s when it has fewer), in order.
LastN(s, n) ==
  LET k == Min(n, Len(s))
  IN  [j \in 1..k |-> s[Len(s) - k + j]]

\* C1: after every addMessage the conversation holds at most L messages,
\* and they are exactly the L most recently appended ones (all of them when
\* fewer were appended), in arrival order.
C1_SlidingWindow ==
  /\ \A c \in DOMAIN chatHistories :
       /\ Len(chatHistories[c].messages) <= MaxHistory
       /\ chatHistories[c].messages = LastN(appended[c], MaxHistory)
  /\ \A c \in RemoteJids : c \notin DOMAIN chatHistories => appended[c] = << >>

\* C1 witness: more than L messages were appended to one conversation (the
\* oldest were dropped) and the conversation holds L messages.
C1_Witness ==
  \E c \in DOMAIN chatHistories :
    /\ Len(appended[c]) > MaxHistory
    /\ Len(chatHistories[c].messages) = MaxHistory
    /\ chatHistories[c].messages[1] = appended[c][Len(appended[c]) - MaxHistory + 1]

\* C2: at most one inbound message is in the Processing stage: never more
\* than one generator call in flight, never more than one pipeline send.
C2_SingleFlight ==
  /\ Cardinality({i \in MsgIds : InFlight(i)}) <= 1
  /\ Cardinality({i \in MsgIds : pc[i] = "awaitGenerate"}) <= 1
  /\ Cardinality({i \in MsgIds : pc[i] = "awaitSend"}) <= 1

\* C2 witness: a message is awaiting its transport send while another
\* message has arrived in the meantime.
C2_Witness ==
  \E i, j \in MsgIds : pc[i] = "awaitSend" /\ j > i /\ pc[j] # "notArrived"

\* C3: a message that arrives while the busy flag is set is dropped with no
\* effect: no history changes, nothing is published, no generator or send
\* call is made, the flag is unchanged, and it is never processed later.
C3_DroppedNoEffect ==
  [][ /\ \A i \in MsgIds :
           (isProcessing /\ pc[i] = "notArrived" /\ pc'[i] # "notArrived")
             => /\ pc'[i] = "skipped"
                /\ UNCHANGED << chatHistories, appended, trace, statusTrace,
                                calls, isProcessing, msg, result >>
      /\ \A i \in MsgIds : pc[i] = "skipped" => pc'[i] = "skipped"
    ]_vars

\* C3 witness: a message was dropped, the flag was released afterwards, and
\* a later message is being processed.
C3_Witness ==
  \E i, j \in MsgIds : pc[i] = "skipped" /\ j > i /\ InFlight(j)

\* C4: every accepted handling attempt ends with the busy flag cleared,
\* whatever the path taken: whenever no invocation of the handler is in
\* flight, the flag is clear.
C4_FlagReleased ==
  (\A i \in MsgIds : ~InFlight(i)) => ~isProcessing

\* C4 witness: attempts have ended on the generation-failure path and on
\* the send-failure path.
C4_Witness ==
  /\ \E i \in MsgIds : pc[i] = "done"
  /\ \A i \in MsgIds : ~InFlight(i)
  /\ \E k \in 1..Len(trace) :
       trace[k].step = "sent" /\ ~trace[k].arg.ok
  /\ calls.generate > calls.sendMessage

\* C5: two inbound messages back-to-back, the second arriving while the
\* first is still Processing: one generator call in total, at most one
\* reply sent, and exactly one dropped signal (the warning) for the second.
C5_SecondDropped ==
  /\ (nextId >= 3 /\ InFlight(1)) => pc[2] = "skipped"
  /\ (nextId = 3 /\ pc[2] = "skipped")
       => /\ calls.generate = 1
          /\ calls.sendMessage <= 1
          /\ warnings = 1
          /\ StepsBy(2) = << >>

\* C5 witness: the second message was dropped and the first has finished.
C5_Witness ==
  nextId = 3 /\ pc[1] = "done" /\ pc[2] = "skipped" /\ calls.sendMessage = 1

\* Handler invocation i made a step of this name with this outcome.
Outcome(i, name, ok) ==
  \E k \in 1..Len(trace) :
    trace[k].by = i /\ trace[k].step = name /\ trace[k].arg.ok = ok

\* The message invocation i was called with (the data of its
\* message_received event, the first step it makes).
Inbound(i) == StepsBy(i)[1].arg.data.data

\* C6 (as claimed): when generation succeeded and the transport send
\* returned failure, an error_occurred event is published.
C6_SendFailurePublished ==
  \A i \in MsgIds :
    (Outcome(i, "generated", TRUE) /\ Outcome(i, "sent", FALSE)
       /\ pc[i] = "done")
      => CountLabel(i, "error_occurred") >= 1

\* C7: when the generator call fails the handler ends normally with exactly
\* one error_occurred event carrying the backend's diagnostic, no transport
\* send, no bot message in history, and neither ai_response_generated nor
\* message_sent.
C7_GenerationFailure ==
  \A i \in MsgIds :
    Outcome(i, "generated", FALSE)
      => /\ pc[i] = "done"
         /\ CountLabel(i, "error_occurred") = 1
         /\ \A k, g \in 1..Len(trace) :
              (trace[k].by = i /\ Label(trace[k]) = "error_occurred"
                 /\ trace[g].by = i /\ trace[g].step = "generated")
                => /\ trace[k].arg.data.data.error[2] = trace[g].arg.diag
                   /\ g < k
         /\ CountLabel(i, "sendMessage") = 0
         /\ CountLabel(i, "sent") = 0
         /\ CountLabel(i, "ai_response_generated") = 0
         /\ CountLabel(i, "message_sent") = 0
         /\ CountLabel(i, "addMessage") = 1
         /\ appended[Inbound(i).to][Len(appended[Inbound(i).to])] = Inbound(i)

\* C7 witness: a handler has ended after its generator call failed.
C7_Witness ==
  \E i \in MsgIds :
    /\ Outcome(i, "generated", FALSE)
    /\ pc[i] = "done"
    /\ ~isProcessing

\* The steps of a fully successful attempt, in order.
SuccessLabels ==
  << "message_received", "addMessage", "generate", "generated",
     "ai_response_generated", "delay", "sendMessage", "sent", "addMessage",
     "message_sent" >>

\* C8: for an accepted message m whose generation and send both succeed,
\* the steps occur once each and in this order: message_received, append of
\* m under m.to, generator call with m's text and the context window,
\* ai_response_generated, the delay, send of the reply text to m.from,
\* append of the bot reply under m.to, message_sent.
C8_StepOrder ==
  \A i \in MsgIds :
    (pc[i] = "done" /\ Outcome(i, "sent", TRUE))
      => LET S == StepsBy(i)
             m == Inbound(i)
         IN  /\ Labels(S) = SuccessLabels
             /\ S[2].arg = [chatId |-> m.to, message |-> m]
             /\ S[3].arg.message = m.content
             /\ Len(S[3].arg.chatHistory) <= DefaultMaxMessages
             /\ S[3].arg.chatHistory[Len(S[3].arg.chatHistory)] = m
             /\ S[4].arg.ok
             /\ S[7].arg = [chatId |-> m.from,
                            message |-> S[5].arg.data.data.message]
             /\ S[9].arg.chatId = m.to
             /\ S[9].arg.message.from = m.to
             /\ S[9].arg.message.content = S[5].arg.data.data.message
             /\ S[10].arg.data.data = S[9].arg.message

\* C8 witness: a group message (m.from differs from m.to) was answered.
C8_Witness ==
  \E i \in MsgIds :
    /\ pc[i] = "done"
    /\ Outcome(i, "sent", TRUE)
    /\ Inbound(i).from # Inbound(i).to

\* The bot-origin messages invocation i passed to addMessage.
BotAppends(i) ==
  {k \in 1..Len(trace) :
     /\ trace[k].by = i
     /\ trace[k].step = "addMessage"
     /\ trace[k].arg.message.id.origin = "bot"}

\* C9: a bot-origin message is appended to the history of m.to and
\* message_sent is published if and only if the transport send for m
\* returned success; on failure neither happens.
C9_BotMessageIffSent ==
  \A i \in MsgIds :
    (pc[i] = "done" /\ StepsBy(i) # << >>)
      => LET m == Inbound(i)
             last == appended[m.to][Len(appended[m.to])]
         IN  /\ (BotAppends(i) # {}) <=> Outcome(i, "sent", TRUE)
             /\ (CountLabel(i, "message_sent") > 0) <=> Outcome(i, "sent", TRUE)
             /\ Cardinality(BotAppends(i)) <= 1
             /\ CountLabel(i, "message_sent") <= 1
             /\ \A k \in BotAppends(i) : trace[k].arg.chatId = m.to
             /\ Outcome(i, "sent", TRUE)
                  => /\ last.id.origin = "bot"
                     /\ chatHistories[m.to].messages
                          [Len(chatHistories[m.to].messages)] = last
             /\ ~Outcome(i, "sent", TRUE)
                  => /\ last = m
                     /\ chatHistories[m.to].messages
                          [Len(chatHistories[m.to].messages)] = m

\* C9 witness: the transport send returned failure after a successful
\* generation and the handler has ended.
C9_Witness ==
  \E i \in MsgIds :
    pc[i] = "done" /\ Outcome(i, "generated", TRUE) /\ Outcome(i, "sent", FALSE)

\* The texts the generator can produce as a reply.
ReplyTexts ==
  {IF o.content = "" THEN Fallback ELSE o.content :
     o \in {b \in BackendOutcomes : b.ok}}

\* C10: per accepted message the generator is invoked at most once and the
\* transport send at most once, never after a failed generation, and what
\* is sent is the generated reply, never an error text.
C10_NoRetryNoErrorReply ==
  /\ calls.generate = Cardinality({i \in MsgIds : Accepted(i)})
  /\ calls.sendMessage <= calls.generate
  /\ \A i \in MsgIds :
       /\ CountLabel(i, "generate") <= 1
       /\ CountLabel(i, "sendMessage") <= 1
       /\ Outcome(i, "generated", FALSE) => CountLabel(i, "sendMessage") = 0
  /\ \A k \in 1..Len(trace) :
       trace[k].step = "sendMessage"
         => /\ trace[k].arg.message \in ReplyTexts
            /\ \E g \in 1..(k - 1) :
                 /\ trace[g].by = trace[k].by
                 /\ Label(trace[g]) = "ai_response_generated"
                 /\ trace[g].arg.data.data.message = trace[k].arg.message

\* C10 witness: one message failed in generation, a later one was answered.
C10_Witness ==
  /\ calls.generate >= 2
  /\ calls.sendMessage = 1
  /\ \E i \in MsgIds : pc[i] = "done" /\ Outcome(i, "sent", TRUE)

\* C11: the busy flag stays set throughout the reply delay and the send
\* after it: a message arriving between the end of generation and the
\* completion of the delayed send is dropped with no effect, is not queued
\* and is not processed once the delay has ended.
C11_BusyThroughDelay ==
  [][ /\ \A i \in MsgIds :
           pc[i] \in {"awaitDelay", "awaitSend"}
             => /\ isProcessing
                /\ pc'[i] \in {"awaitDelay", "awaitSend"} => isProcessing'
                /\ \A j \in MsgIds :
                     (pc[j] = "notArrived" /\ pc'[j] # "notArrived")
                       => /\ pc'[j] = "skipped"
                          /\ msg'[j] = NoMsg
                          /\ UNCHANGED << chatHistories, calls, trace >>
      /\ \A j \in MsgIds :
           (pc[j] = "skipped" /\ pc'[j] # "skipped") => FALSE
    ]_vars

\* C11 witness: a message was dropped during the delay of an earlier one,
\* the delay has ended, and the dropped message is still dropped.
C11_Witness ==
  \E i, j \in MsgIds :
    /\ i < j
    /\ pc[i] = "awaitSend"
    /\ pc[j] = "skipped"
    /\ droppedDuring = "awaitDelay"
    /\ isProcessing

\* C12 (as claimed): under any sequence of addMessage, clearChatHistory,
\* cleanupOldHistories and importChatHistory calls, every stored
\* conversation holds at most L messages.
C12_AtMostL ==
  \A c \in DOMAIN chatHistories :
    Len(chatHistories[c].messages) <= MaxHistory

\* The latest call was one of the two read operations.
ReadReturned ==
  ret.op \in {"getRecentMessages", "getConversationContext"}

\* C13 (as claimed): for every n >= 0, n = 0 and n > len included,
\* getRecentMessages(chatId, n) and getConversationContext(chatId, n) return
\* exactly the last min(n, len) messages in order, the same as each other,
\* and the empty sequence for an unknown chatId.
C13_ReadsLastMin ==
  /\ ReadReturned
       => /\ ret.result.messages =
               LastN(GetChatHistory(chatHistories, ret.chatId), ret.arg.count)
          /\ ret.chatId \notin DOMAIN chatHistories
               => ret.result.messages = << >>
  /\ \A c \in RemoteJids, n \in Counts :
       GetRecentMessages(chatHistories, c, n)
         = GetConversationContext(chatHistories, c, n)

\* C14 (as claimed): cleanupOldHistories(D) removes exactly the
\* conversations whose lastUpdated is strictly older than now - D, leaves
\* every other conversation unchanged, and returns the number removed.
C14_CleanupOlderThanD ==
  [][ (/\ ret'.op = "cleanupOldHistories"
       /\ CleanupOldHistoriesCall(ret'.arg.daysOld))
        => LET old == {c \in DOMAIN chatHistories :
                         chatHistories[c].lastUpdated
                           < now - ret'.arg.daysOld}
           IN  /\ DOMAIN chatHistories' = DOMAIN chatHistories \ old
               /\ \A c \in DOMAIN chatHistories' :
                    chatHistories'[c] = chatHistories[c]
               /\ ret'.result.count = Cardinality(old)
    ]_vars

\* C14 (amended): cleanupOldHistories(D), D a number of days, removes
\* exactly the conversations whose lastUpdated is strictly older than
\* now - D * 86400000 ms, leaves every other conversation unchanged, and
\* returns the number of conversations it removed.
C14_CleanupExact ==
  [][ (/\ ret'.op = "cleanupOldHistories"
       /\ CleanupOldHistoriesCall(ret'.arg.daysOld))
        => LET old == {c \in DOMAIN chatHistories :
                         chatHistories[c].lastUpdated
                           < now - ret'.arg.daysOld * MsPerDay}
           IN  /\ DOMAIN chatHistories' = DOMAIN chatHistories \ old
               /\ \A c \in DOMAIN chatHistories' :
                    chatHistories'[c] = chatHistories[c]
               /\ ret'.result.count = Cardinality(old)
    ]_vars

\* C14 witness: a cleanup with D >= 1 day removed a conversation and kept
\* one whose lastUpdated is exactly now - D.
C14_Witness ==
  /\ ret.op = "cleanupOldHistories"
  /\ ret.arg.daysOld >= 1
  /\ ret.result.count >= 1
  /\ \E c \in DOMAIN chatHistories :
       chatHistories[c].lastUpdated = now - ret.arg.daysOld * MsPerDay

\* The fields of WhatsAppMessage.
MessageKeys ==
  {"id", "from", "to", "timestamp", "type", "content", "isGroup", "groupId",
   "senderName"}

\* Two messages read the same in every field.
SameMessage(a, b) == \A key \in MessageKeys : Get(a, key) = Get(b, key)

\* exportChatHistory(c) from the store, then importChatHistory(c, blob)
\* into a fresh store.
RoundTrip(c) ==
  ImportChatHistory(<< >>, c, ExportChatHistory(chatHistories, c))

\* C15: for every existing conversation, export followed by import into a
\* fresh store succeeds and reproduces an identical message sequence and an
\* identical lastUpdated; exporting an unknown chatId yields no blob.
C15_ExportImportRoundTrip ==
  \A c \in RemoteJids :
    IF c \in DOMAIN chatHistories
    THEN LET r == RoundTrip(c)
             original == chatHistories[c]
         IN  /\ r.ok
             /\ DOMAIN r.store = {c}
             /\ Len(r.store[c].messages) = Len(original.messages)
             /\ \A k \in 1..Len(original.messages) :
                  SameMessage(r.store[c].messages[k], original.messages[k])
             /\ r.store[c].lastUpdated = original.lastUpdated
             /\ r.store[c].chatId = c
    ELSE ExportChatHistory(chatHistories, c) = NullValue

\* C15 witness: an export returned a blob while the store holds a
\* conversation of several distinct messages without optional fields and a
\* group conversation with them, last updated on different days.
C15_Witness ==
  /\ ret.op = "exportChatHistory"
  /\ ret.result.text # NullValue
  /\ DOMAIN chatHistories = RemoteJids
  /\ Len(chatHistories[UserJid].messages) >= 2
  /\ chatHistories[UserJid].messages[1] # chatHistories[UserJid].messages[2]
  /\ Get(chatHistories[UserJid].messages[1], "groupId") = Undefined
  /\ Get(chatHistories[GroupJid].messages[1], "groupId") = GroupJid
  /\ chatHistories[UserJid].lastUpdated # chatHistories[GroupJid].lastUpdated

\* The text does not decode to a history of this chat.
Rejectable(chatId, jsonData) ==
  IF jsonData.kind = "object" THEN jsonData.value.chatId # chatId ELSE TRUE

\* C16: importChatHistory(target, blob) with a blob whose embedded chatId
\* differs from target, or with a blob that cannot be decoded, returns
\* false and leaves the whole store unchanged.
C16_ImportRejects ==
  [][ (/\ ret'.op = "importChatHistory"
       /\ ImportChatHistoryCall(ret'.chatId, ret'.arg.jsonData)
       /\ Rejectable(ret'.chatId, ret'.arg.jsonData))
        => /\ ret'.result.ok = FALSE
           /\ UNCHANGED chatHistories
    ]_vars

\* C16 witness: an import into an existing conversation was rejected
\* because the blob holds another conversation.
C16_Witness ==
  /\ ret.op = "importChatHistory"
  /\ ret.result.ok = FALSE
  /\ ret.arg.jsonData.kind = "object"
  /\ ret.arg.jsonData.value.chatId # ret.chatId
  /\ ret.chatId \in DOMAIN chatHistories
  /\ Len(chatHistories[ret.chatId].messages) >= 1

\* The sockets in clients whose readyState is OPEN.
OpenSockets ==
  {clients[k].ws : k \in {j \in 1..Len(clients) :
                            clients[j].readyState = "OPEN"}}

\* C17: when the send to one observer raises, or the observer is not open,
\* the failure stays with that observer: nothing is thrown to the
\* publisher and every other open observer is sent the same event.
C17_FailureContained ==
  [][ \A F \in SUBSET Sockets :
        (/\ publishedEvent'.type \in EventTypes
         /\ SendEvent(publishedEvent'.type, F))
          => /\ delivered'.to = OpenSockets \ F
             /\ delivered'.text.data.type = publishedEvent'.type
             /\ ~thrown'
    ]_vars

\* C17 witness: the send to the first observer raised (it is open and was
\* not sent the event) and the observer after it was sent the event.
C17_Witness ==
  /\ publishedEvent # NoEvent
  /\ Len(clients) = 2
  /\ clients[1].readyState = "OPEN"
  /\ clients[1].ws \notin delivered.to
  /\ clients[2].ws \in delivered.to
  /\ ~thrown

\* The event types the claim lists.
ListedTypes ==
  EventTypes \cup {"connection", "status"}

\* C18 (as claimed): every payload delivered for a published event is a
\* record {type, data, timestamp} whose top-level type is the event's own
\* type, one of the listed types.
C18_TopLevelEventType ==
  (publishedEvent # NoEvent /\ delivered.to # {})
    => /\ DOMAIN delivered.text = {"type", "data", "timestamp"}
       /\ delivered.text.type = publishedEvent.type
       /\ delivered.text.type \in ListedTypes

\* C18 (amended): every payload delivered for a published event is a record
\* {type, data, timestamp} of top-level type 'message' whose data is the
\* event, a record {type, data, timestamp} carrying the event's own type,
\* one of the five EventType values; every payload has top-level type
\* message, status or connection.
C18_EventWrapped ==
  /\ delivered.text.type \in {"none", "message", "status", "connection"}
  /\ publishedEvent # NoEvent
       => /\ DOMAIN delivered.text = {"type", "data", "timestamp"}
          /\ delivered.text.type = "message"
          /\ DOMAIN delivered.text.data = {"type", "data", "timestamp"}
          /\ delivered.text.data.type = publishedEvent.type
          /\ delivered.text.data.timestamp = publishedEvent.timestamp
          /\ publishedEvent.type \in EventTypes

\* C18 witness: a message_received event was delivered to every observer.
C18_Witness ==
  /\ publishedEvent.type = "message_received"
  /\ delivered.to = Sockets
  /\ delivered.text.data.type = "message_received"
  /\ delivered.text.data.data.content = ContentOf(1)

\* C19 (as claimed): in the dialogue turns built from a history, every
\* bot-origin message (from = m.to) is tagged assistant and every inbound
\* message of a counterparty is tagged user, in one-to-one and in group
\* conversations.
C19_RolesByOrigin ==
  Len(contextResult) = Len(chatHistoryArg)
    => \A k \in 1..Len(contextResult) :
         contextResult[k].role =
           IF chatHistoryArg[k].id.origin = "bot" THEN "assistant" ELSE "user"

\* The bodies that are blank after trimming.
IsBlank(content) == content \in {"", " ", "  ", BlankText}

\* The positions of the last ContextWindow messages of the argument.
WindowPositions ==
  {k \in 1..Len(chatHistoryArg) : k > Len(chatHistoryArg) - ContextWindow}

\* C20: the dialogue turns are exactly the sub-sequence of the last 10
\* messages whose body is non-blank after trimming, in original order, so
\* never more than 10; 12 messages with message 5 blank give 9 turns.
C20_LastTenNonBlank ==
  LET selected == {k \in WindowPositions :
                     ~IsBlank(chatHistoryArg[k].content)}
      Rank(k) == Cardinality({j \in selected : j <= k})
  IN  /\ Len(contextResult) = Cardinality(selected)
      /\ Len(contextResult) <= 10
      /\ \A k \in selected :
           contextResult[Rank(k)].content = chatHistoryArg[k].content
      /\ (/\ Len(chatHistoryArg) = 12
          /\ \A k \in 1..12 : IsBlank(chatHistoryArg[k].content) <=> k = 5)
           => Len(contextResult) = 9

\* C20 witness: a history of 12 messages of which only message 5 is blank
\* gave 9 turns, the first of them message 3.
C20_Witness ==
  /\ Len(chatHistoryArg) = 12
  /\ \A k \in 1..12 : (chatHistoryArg[k].content = BlankText) <=> k = 5
  /\ Len(contextResult) = 9
  /\ contextResult[1].content = chatHistoryArg[3].content
  /\ contextResult[9].content = chatHistoryArg[12].content

\* The words of the last TopicWindow messages of the argument that pass the
\* test, as (message position, word position) pairs.
Qualifying ==
  {p \in {k \in 1..Len(chatHistoryArg) :
            k > Len(chatHistoryArg) - TopicWindow} \X (1..5) :
     LET words == Split(ToLowerCase(chatHistoryArg[p[1]].content))
     IN  /\ p[2] <= Len(words)
         /\ Len(words[p[2]]) > 3
         /\ words[p[2]] \notin CommonWords}

\* Message order, then left to right within a message.
Before(p, q) == p[1] < q[1] \/ (p[1] = q[1] /\ p[2] <= q[2])

\* C21: extractContext returns at most 5 tokens, none of them a stop word,
\* each longer than 3 characters, and they are the first qualifying tokens
\* of the last 5 messages, in message order and left to right within a
\* message.
C21_TopicsFirstFive ==
  LET Rank(p) == Cardinality({q \in Qualifying : Before(q, p)})
  IN  /\ Len(topics) <= 5
      /\ \A r \in 1..Len(topics) :
           topics[r] \notin CommonWords /\ Len(topics[r]) > 3
      /\ Len(topics) = Min(5, Cardinality(Qualifying))
      /\ \A p \in Qualifying :
           Rank(p) <= 5
             => topics[Rank(p)] =
                  Split(ToLowerCase(chatHistoryArg[p[1]].content))[p[2]]

\* C21 witness: of six messages the first, outside the window, has a
\* qualifying word that is not returned; the window holds a stop word of
\* more than 3 characters and more than 5 qualifying words; 5 are returned.
C21_Witness ==
  /\ Len(chatHistoryArg) = 6
  /\ chatHistoryArg[1].content = "what time is it"
  /\ chatHistoryArg[2].content = "About The Weather"
  /\ \A r \in 1..Len(topics) : topics[r] \notin {"what", "time", "about"}
  /\ Cardinality(Qualifying) > 5
  /\ Len(topics) = 5
  /\ topics[1] = "weather"

\* The latest call of generateResponse returned an AIResponse.
Responded == aiResult # NoCompletion /\ aiResult.completion.ok

\* C22: the confidence derived from the finish signal (the OpenAI backend)
\* depends on the signal alone and is strictly ordered content-filtered <
\* unknown or absent < truncated < clean completion; a truncated completion
\* gets the medium value, never the high one.
C22_ConfidenceOrdered ==
  LET High == 90
      Medium == 70
      Default == 60
      Lowest == 50
      Expected(f) == CASE f = "stop" -> High
                       [] f = "length" -> Medium
                       [] f = "content_filter" -> Lowest
                       [] OTHER -> Default
  IN  /\ Lowest < Default /\ Default < Medium /\ Medium < High
      /\ (Responded /\ provider = "openai")
           => /\ aiResult.value.response.confidence
                   = Expected(aiResult.completion.finish)
              /\ aiResult.completion.finish = "length"
                   => /\ aiResult.value.response.confidence = Medium
                      /\ aiResult.value.response.confidence # High

\* C22 witness: a truncated completion without text, after a conversation
\* of two messages, was rated medium by the OpenAI backend.
C22_Witness ==
  /\ Responded
  /\ provider = "openai"
  /\ Len(chatHistoryArg) = 2
  /\ aiResult.completion.finish = "length"
  /\ aiResult.completion.content = ""
  /\ aiResult.value.response.confidence = 70

\* The generator call of invocation i succeeded without usable text.
NoUsableText(i) ==
  \E k \in 1..Len(trace) :
    /\ trace[k].by = i
    /\ trace[k].step = "generated"
    /\ trace[k].arg.ok
    /\ trace[k].arg.content = ""

\* C23: when the backend call succeeds without usable text, generation
\* counts as success with the fallback apology as the reply:
\* ai_response_generated is published with it, it is sent to m.from, and no
\* error_occurred event is published for that message.
C23_FallbackIsSuccess ==
  \A i \in MsgIds :
    NoUsableText(i)
      => /\ pc[i] \in {"awaitDelay", "awaitSend", "done"}
         /\ CountLabel(i, "ai_response_generated") = 1
         /\ \A k \in 1..Len(trace) :
              (trace[k].by = i /\ Label(trace[k]) = "ai_response_generated")
                => trace[k].arg.data.data.message = Fallback
         /\ CountLabel(i, "error_occurred") = 0
         /\ pc[i] \in {"awaitSend", "done"}
              => /\ CountLabel(i, "sendMessage") = 1
                 /\ \A k \in 1..Len(trace) :
                      (trace[k].by = i /\ trace[k].step = "sendMessage")
                        => trace[k].arg = [chatId |-> Inbound(i).from,
                                           message |-> Fallback]

\* C23 witness: a group message whose completion had no text was answered
\* with the fallback apology, which was sent and stored.
C23_Witness ==
  \E i \in MsgIds :
    /\ NoUsableText(i)
    /\ pc[i] = "done"
    /\ Outcome(i, "sent", TRUE)
    /\ Inbound(i).from # Inbound(i).to
    /\ chatHistories[Inbound(i).to].messages
         [Len(chatHistories[Inbound(i).to].messages)].content = Fallback

\* A manual send starts on this step.
ManualStarts ==
  /\ ~ManualPending
  /\ ret'.op = "sendManualMessage"
  /\ ret' # ret

\* C24: whenever the connection status is not Ready, or no socket exists,
\* sendMessage returns false without transmitting anything and without
\* raising; a transmission that fails while Ready yields false as well.
C24_SendNeedsReady ==
  [][ /\ ManualStarts
           => IF ~sock \/ connectionStatus # "ready"
              THEN /\ ret'.result.returned
                   /\ ret'.result.value = FALSE
                   /\ ret'.result.transmitted = << >>
              ELSE /\ ~ret'.result.returned
                   /\ Len(ret'.result.transmitted) = 1
      /\ ManualSendReturns(FALSE)
           => ret'.result.returned /\ ret'.result.value = FALSE
      /\ \A i \in MsgIds :
           /\ (pc[i] = "awaitDelay" /\ pc'[i] # "awaitDelay")
                => IF ~sock \/ connectionStatus # "ready"
                   THEN pc'[i] = "done" /\ Outcome(i, "sent", FALSE)'
                   ELSE pc'[i] = "awaitSend"
           /\ SockSendReturns(i, FALSE)
                => pc'[i] = "done" /\ Outcome(i, "sent", FALSE)'
    ]_vars

\* C24 witness: with a socket whose status is not Ready, a manual send and
\* the send of a reply both returned false, nothing transmitted.
C24_Witness ==
  /\ sock
  /\ connectionStatus = "connecting"
  /\ ret.op = "sendManualMessage"
  /\ ret.result.returned
  /\ ret.result.transmitted = << >>
  /\ ~ret.result.value
  /\ \E i \in MsgIds :
       /\ pc[i] = "done"
       /\ Outcome(i, "generated", TRUE)
       /\ Outcome(i, "sent", FALSE)

\* C26: sendManualMessage(chatId, text) forwards exactly (chatId, text) to
\* the transport and returns the transport's result; it can be called
\* while a message is being processed, and it leaves the busy flag, every
\* conversation history and the handlers' state unchanged and publishes no
\* event.
C26_ManualSendBypasses ==
  /\ [](\A c \in RemoteJids :
          ~ManualPending => ENABLED SendManualMessage(c, ManualText))
  /\ [][ /\ ret' # ret
             => /\ ret'.op = "sendManualMessage"
                /\ UNCHANGED << isProcessing, chatHistories, appended, trace,
                                statusTrace, pc, msg, result, calls,
                                warnings >>
                /\ \A k \in 1..Len(ret'.result.transmitted) :
                     ret'.result.transmitted[k] =
                       [jid |-> ret'.chatId,
                        content |-> [text |-> ret'.arg.text]]
          /\ \A sent \in BOOLEAN :
               ManualSendReturns(sent)
                 => /\ ret'.result.value = sent
                    /\ Len(ret'.result.transmitted) = 1
        ]_vars

\* C26 witness: a manual send to the group was transmitted and returned
\* true while the first message of the counterparty awaits the generator.
C26_Witness ==
  /\ isProcessing
  /\ pc[1] = "awaitGenerate"
  /\ connectionStatus = "ready"
  /\ ret.op = "sendManualMessage"
  /\ ret.chatId = GroupJid
  /\ ret.result.returned
  /\ ret.result.value
  /\ ret.result.transmitted = << SockSendMessage(GroupJid, ManualText) >>
  /\ DOMAIN chatHistories = {UserJid}

\* C25 (as claimed): every call of shutdown(), one whose transport
\* disconnect fails included, returns without raising, with the transport
\* disconnected and the broadcast channel closed, no observer attached.
C25_ShutdownClosesBoth ==
  [][ (ret'.op = "shutdown" /\ ret' # ret /\ ret'.result.returned)
        => /\ ~ret'.result.raised
           /\ ~sock'
           /\ connectionStatus' = "disconnected"
           /\ ~wss'
           /\ clients' = << >>
    ]_vars

\* The status of the latest connection_status_changed broadcast.
LastStatusBroadcast ==
  IF statusTrace = << >> THEN "disconnected"
  ELSE statusTrace[Len(statusTrace)].arg.data.data.status

\* C27: in every reachable state getStatus() reports isProcessing equal to
\* the busy flag (true exactly from the acceptance of a message until its
\* flag release), totalChats equal to the number of stored conversations,
\* totalMessages equal to the sum of their message counts, and
\* whatsappConnected true exactly when the transport status is Ready.
C27_StatusSnapshot ==
  /\ GetStatus.isProcessing = isProcessing
  /\ GetStatus.isProcessing <=> \E i \in MsgIds : InFlight(i)
  /\ GetStatus.totalChats
       = Cardinality({c \in RemoteJids : appended[c] # << >>})
  /\ GetStatus.totalMessages
       = Min(Len(appended[UserJid]), MaxHistory)
           + Min(Len(appended[GroupJid]), MaxHistory)
  /\ GetStatus.whatsappConnected <=> connectionStatus = "ready"
  /\ GetStatus.whatsappConnected <=> LastStatusBroadcast = "ready"

\* C27 witness: two conversations hold more messages than one may hold,
\* the transport is Ready and a message is being processed.
C27_Witness ==
  /\ GetStatus.isProcessing
  /\ GetStatus.whatsappConnected
  /\ GetStatus.totalChats = 2
  /\ GetStatus.totalMessages > MaxHistory
  /\ \E i \in MsgIds : pc[i] = "awaitDelay"

\* The generator call of an accepted message hangs.
Hung == \E i \in HungIds : pc[i] = "awaitGenerate"

\* C28: if the generator call for an accepted message never returns, the
\* busy flag stays set forever and every inbound message arriving
\* afterwards is dropped: no further generator call, send or history
\* append ever happens.
C28_HungBackendBlocks ==
  /\ [](Hung => isProcessing)
  /\ [][ Hung
           => /\ Hung'
              /\ isProcessing'
              /\ UNCHANGED << calls, chatHistories, appended, trace >>
              /\ \A j \in MsgIds :
                   pc'[j] # pc[j]
                     => /\ pc[j] = "notArrived"
                        /\ pc'[j] = "skipped"
                        /\ msg'[j] = NoMsg
        ]_vars

\* C28 witness: the first message was answered, the call for the second
\* hangs, and the third was dropped.
C28_Witness ==
  /\ pc[1] = "done"
  /\ calls.sendMessage = 1
  /\ \E c \in DOMAIN chatHistories :
       /\ Len(chatHistories[c].messages) >= 2
       /\ chatHistories[c].messages[2].id.origin = "bot"
  /\ pc[2] = "awaitGenerate"
  /\ pc[3] = "skipped"
  /\ isProcessing
  /\ calls.generate = 2
  /\ warnings = 1

\* C29: when every generator call and every transport send returns, the
\* handling of each accepted message ends and the flag is released; the
\* next message to arrive after that is accepted and processed.
C29_ReturnsToIdle ==
  /\ \A i \in MsgIds : InFlight(i) ~> (pc[i] = "done" /\ ~isProcessing)
  /\ [][ \A j \in MsgIds :
           (~isProcessing /\ pc[j] = "notArrived" /\ pc'[j] # "notArrived")
             => pc'[j] = "awaitGenerate" /\ isProcessing'
        ]_vars

\* C29 witness: two messages have been handled to the end, one after the
\* other, and the pipeline is idle again.
C29_Witness ==
  /\ pc[1] = "done"
  /\ pc[2] = "done"
  /\ ~isProcessing
  /\ calls.generate = 2
  /\ warnings = 0

\* C30: addMessage(chatId, msg) creates the conversation if absent, sets
\* its lastUpdated to the current time, returns normally, and leaves every
\* other conversation (messages and lastUpdated) unchanged.
C30_AddMessageFrame ==
  [][ (/\ ret'.op = "addMessage"
       /\ AddMessageCall(ret'.chatId, ret'.arg.message))
        => /\ DOMAIN chatHistories' = DOMAIN chatHistories \cup {ret'.chatId}
           /\ chatHistories'[ret'.chatId].lastUpdated = now
           /\ chatHistories'[ret'.chatId].chatId = ret'.chatId
           /\ LET after == chatHistories'[ret'.chatId].messages
              IN  /\ after # << >>
                  /\ after[Len(after)] = ret'.arg.message
                  /\ ret'.chatId \notin DOMAIN chatHistories
                       => after = << ret'.arg.message >>
           /\ \A c \in DOMAIN chatHistories \ {ret'.chatId} :
                chatHistories'[c] = chatHistories[c]
           /\ ret'.result = Void
    ]_vars

\* C30 witness: a message was added to a conversation that exists, on a
\* later day than its last update, while another conversation keeps its
\* older lastUpdated.
C30_Witness ==
  /\ ret.op = "addMessage"
  /\ now > 0
  /\ DOMAIN chatHistories = RemoteJids
  /\ Len(chatHistories[ret.chatId].messages) >= 2
  /\ chatHistories[ret.chatId].lastUpdated = now
  /\ \E c \in RemoteJids \ {ret.chatId} : chatHistories[c].lastUpdated < now

\* C31 (as claimed): with a configured maximum length L = 0, after every
\* addMessage the conversation holds 0 messages.
C31_ZeroLengthKeepsNone ==
  \A c \in DOMAIN chatHistories :
    Len(chatHistories[c].messages) <= ZeroLength

\* C32 (as claimed): in every interleaving of cleanupOldHistories,
\* clearChatHistory and importChatHistory with the message pipeline, the
\* store invariants hold between any two steps: every key maps to an entry
\* whose chatId is the key, and every conversation holds at most L messages.
C32_StoreInvariantsBetweenSteps ==
  \A c \in DOMAIN chatHistories :
    /\ chatHistories[c].chatId = c
    /\ Len(chatHistories[c].messages) <= MaxHistory

\* The generator calls recorded in the trace.
GenerateCalls == {k \in 1..Len(trace) : trace[k].step = "generate"}

SendSucceeds(i) ==
  /\ pc[i] = "awaitSend"
  /\ Len(trace') > Len(trace)
  /\ trace'[Len(trace) + 1] = Step("sent", i, [ok |-> TRUE])

\* C37 (as claimed): when the processing of an accepted message m completes
\* with a successful send, the history of m.to ends with m immediately
\* followed by the bot reply, also when clearChatHistory,
\* cleanupOldHistories or importChatHistory ran while the generator call or
\* the reply delay was pending.
C37_ReplyFollowsMessage ==
  [][\A i \in MsgIds :
       SendSucceeds(i) =>
         LET h == GetChatHistory(chatHistories', msg[i].to)
         IN  /\ Len(h) >= 2
             /\ h[Len(h) - 1] = msg[i]
             /\ h[Len(h)].id.origin = "bot"
             /\ h[Len(h)].content = result[i].response]_vars

\* C33 (as claimed): every inbound message the transport receives from a
\* counterparty with extractable text is delivered to the registered
\* message handler, also when several messages arrive in one batch.
C33_EveryInboundDelivered ==
  \A n \in 1..Len(upserted) :
    Deliverable(upserted[n]) => pc[n] # "notArrived"

\* The messages of counterparties stored in the histories.
StoredInbound ==
  UNION { {chatHistories[c].messages[k] :
             k \in 1..Len(chatHistories[c].messages)} :
          c \in DOMAIN chatHistories }

\* C38: a transport message sent by the bot's own account, or one with no
\* extractable text, is never handed to the message handler; every inbound
\* message in a history stems from a counterparty's message with text, and
\* the generator is called at most once per such message.
C38_OwnOrEmptyNeverDelivered ==
  /\ \A n \in 1..Len(upserted) :
       (upserted[n].fromMe \/ upserted[n].content = NoText)
         => pc[n] = "notArrived"
  /\ \A m \in StoredInbound :
       m.id.origin = "wa" =>
         /\ ~upserted[m.id.n].fromMe
         /\ upserted[m.id.n].content = m.content
  /\ calls.generate <=
       Cardinality({n \in 1..Len(upserted) : Deliverable(upserted[n])})

\* C38 witness: a reply was sent and stored, then the transport reported a
\* message of the bot's own account with the reply's text, and one without
\* text; neither reached the handler.
C38_Witness ==
  /\ Len(upserted) = 3
  /\ pc[1] = "done"
  /\ upserted[2].fromMe
  /\ \E m \in StoredInbound :
       m.id.origin = "bot" /\ m.content = upserted[2].content
  /\ upserted[3].content = NoText /\ ~upserted[3].fromMe
  /\ pc[2] = "notArrived" /\ pc[3] = "notArrived"

\* The identities of the handlers in a list, in order.
IdsOf(handlers) == [k \in 1..Len(handlers) |-> handlers[k].id]

\* C34: emitEvent(event) invokes every handler registered for event.type,
\* in registration order, each with event.data; a handler that raises
\* does not keep the later ones from being invoked, no exception reaches
\* the emitter, and handlers of other types are not invoked.
C34_EmitInvokesAllOfType ==
  [][invoked' # invoked =>
       LET handlers == HandlersOf(eventHandlers, invoked'.type)
       IN  /\ [k \in 1..Len(invoked'.calls) |-> invoked'.calls[k].handler]
                = IdsOf(handlers)
           /\ \A k \in 1..Len(invoked'.calls) :
                invoked'.calls[k].data = EventData(invoked'.type)
           /\ \A k \in 1..(Len(handlers) - 1) :
                handlers[k].id < handlers[k + 1].id
           /\ ~thrown']_vars

\* C34 witness: the event was emitted to two handlers of its type, the
\* first of which raises, while a handler of another type is registered.
C34_Witness ==
  /\ Len(invoked.calls) = 2
  /\ \E h \in Registered : h.id = invoked.calls[1].handler /\ h.raises
  /\ \E t \in DOMAIN eventHandlers : t # invoked.type
  /\ ~thrown

\* C35 (as claimed): every change of the transport connection status
\* results in exactly one connection_status_changed event, carrying the
\* new status, being broadcast to observers.
C35_OneEventPerStatusChange ==
  [][connectionStatus' # connectionStatus =>
       /\ Len(statusTrace') = 1
       /\ statusTrace'[1].arg.data.type = "connection_status_changed"
       /\ statusTrace'[1].arg.data.data.status = connectionStatus']_vars

\* The latest text sent to observers has the shape of a published system
\* event: type 'message' wrapping an AppEvent of one of the event types.
SystemEventDelivered ==
  /\ delivered.text.type = "message"
  /\ "type" \in DOMAIN delivered.text.data
  /\ delivered.text.data.type \in EventTypes

\* Observer ws sends a message, and the server sends a new text to
\* observers because of it.
ObserverSends(ws, m) ==
  /\ m.type \in {"message", "status"}
  /\ HandleClientMessage(ws, m, {})
  /\ delivered' # delivered

\* C39 (as claimed): what an observer sends to the channel cannot make
\* other observers receive something indistinguishable from an event
\* published by the Orchestrator: no message of an observer results in a
\* system-event payload being sent to another observer.
C39_ObserversCannotForgeEvents ==
  [][\A ws \in Sockets, m \in ClientMessages \cup EventShapedMessages :
       ObserverSends(ws, m) =>
         ~(SystemEventDelivered' /\ delivered'.to \ {ws} # {})]_vars

====
